---- MODULE Spec2Model ----
(***************************************************************************)
(* A model of restish's API-surface discovery and compilation engine:      *)
(*   - the command builder          (cli/operation.go, Operation.command)  *)
(*   - the OpenAPI operation compiler (openapi, loadOpenAPI3)              *)
(*   - the hypermedia link resolver (cli/links.go, ParseLinks)             *)
(*                                                                         *)
(* Strings are modelled as texts: sequences of tokens.  A token is a       *)
(* record [t, s]; Lit(s) is a run of ordinary characters and Ph(n) is the  *)
(* text "{n}", so that a template placeholder and a user supplied text     *)
(* "{n}" are the same token, as they are the same characters in Go.        *)
(***************************************************************************)
EXTENDS Integers, Sequences, FiniteSets, TLC

VARIABLES
    \* ---- command builder ----
    op,          \* the Operation the command was built from
    flags,       \* flags[name]: the value bound to the flag of a query/header param
    cmdStatus,   \* "ready" | "sent" | "fatal" | "panic" | "usage"
    cmdArgs,     \* the positional arguments of the invocation
    request,     \* the request handed to the transport (NoRequest before)
    fatalMsg,    \* what log.Fatalf reported: [param, input]
    sentCount,   \* number of calls of MakeRequestAndFormat
    \* ---- operation compiler ----
    document,    \* the loaded description document (swagger)
    location,    \* the URL the document was fetched from (spec)
    loadEnv,     \* what the collaborators did: [fault, failing]
    loadStatus,  \* "idle" | "ok" | "err"
    api,         \* the cli.API loadOpenAPI3 returned
    again,       \* [status, api]: what a second load of the document returned
    \* ---- link resolver ----
    linkParsers, \* the registered link parsers, in registration order
    resp,        \* the Response: Headers, Body, Links
    base,        \* the URL of the request that produced the response
    discovered,  \* resp.Links as the parsers left it, before resolution
    invoked,     \* the parsers ParseLinks called, in order
    plStatus,    \* "idle" | "ok" | "err" | "panic": how ParseLinks ended
    plError,     \* the error ParseLinks returned (NoError for nil)
    \* ---- configuration wizard ----
    profile,     \* the APIProfile being edited: Headers, Query, Auth
    wizard,      \* "editing" | "finished" | "exited"
    choice,      \* the option chosen in the last turn of the loop: [kind, key]
    before       \* the profile as it was before that turn

cmdVars == <<op, flags, cmdStatus, cmdArgs, request, fatalMsg, sentCount>>

compileVars == <<document, location, loadEnv, loadStatus, api, again>>

linkVars == <<linkParsers, resp, base, discovered, invoked, plStatus, plError>>

profileVars == <<profile, wizard, choice, before>>

vars == <<op, flags, cmdStatus, cmdArgs, request, fatalMsg, sentCount,
          document, location, loadEnv, loadStatus, api, again,
          linkParsers, resp, base, discovered, invoked, plStatus, plError,
          profile, wizard, choice, before>>

-----------------------------------------------------------------------------
(* Bounds *)

\* longest array value bound to an array flag
MaxArrayLen == 2
\* most positional arguments after the path arguments
MaxBodyArgs == 1

-----------------------------------------------------------------------------
(* Texts *)

Lit(s) == [t |-> "lit", s |-> s]
Ph(n) == [t |-> "ph", s |-> n]

EmptyText == << >>

\* strings.Index for a one-token needle: first position of tok in s at or
\* after i, 0 when there is none
RECURSIVE IndexOf(_, _, _)
IndexOf(s, tok, i) ==
    IF i > Len(s) THEN 0
    ELSE IF s[i] = tok THEN i
    ELSE IndexOf(s, tok, i + 1)

\* strings.Replace(s, old, new, 1) where old is the one token tok
ReplaceFirst(s, tok, new) ==
    LET i == IndexOf(s, tok, 1)
    IN  IF i = 0 THEN s
        ELSE SubSeq(s, 1, i - 1) \o new \o SubSeq(s, i + 1, Len(s))

\* strings.Join(elems, ",")
RECURSIVE Join(_)
Join(elems) ==
    IF elems = << >> THEN EmptyText
    ELSE IF Len(elems) = 1 THEN elems[1]
    ELSE elems[1] \o <<Lit(",")>> \o Join(Tail(elems))

\* a Go map with no entry
EmptyMap == [n \in {} |-> << >>]

-----------------------------------------------------------------------------
(* Values held in interface{}: [t |-> dynamic type, v |-> value] *)

Nil == [t |-> "nil", v |-> FALSE]

SliceTypes == {"[]string", "[]interface {}"}

\* the decimal numerals that occur as argument texts, and their values
Numerals == {"42", "7", "07"}

NumeralValue(n) == CASE n = "42" -> 42 [] n = "7" -> 7 [] n = "07" -> 7

\* strconv-style canonical decimal text of an integer
IntText(i) ==
    CASE i = 0 -> "0" [] i = 1 -> "1" [] i = 7 -> "7" [] i = 42 -> "42"

\* fmt.Sprintf("%v", value) for a scalar
Sprintv(value) ==
    CASE value.t = "bool" -> <<Lit(IF value.v THEN "true" ELSE "false")>>
      [] value.t \in {"int", "float64"} -> <<Lit(IntText(value.v))>>
      [] value.t = "string" -> value.v

\* reflect.Value.IsZero: a slice is zero only when it is nil, and the slice a
\* flag points to is never nil (operation.go:116 "IsZero() above fails for
\* empty arrays")
IsZero(value) ==
    CASE value.t = "bool" -> ~value.v
      [] value.t \in {"int", "float64"} -> value.v = 0
      [] value.t = "string" -> value.v = EmptyText
      [] value.t \in SliceTypes -> FALSE

\* rv.Kind() == reflect.Slice && rv.Len() == 0
IsEmptySlice(value) == value.t \in SliceTypes /\ Len(value.v) = 0

\* Go's == on two interface values: unequal when the dynamic types differ,
\* a run-time panic when they are the same uncomparable (slice) type
IfaceEq(a, b) ==
    IF a.t # b.t THEN "neq"
    ELSE IF a.t \in SliceTypes THEN "panic"
    ELSE IF a.v = b.v THEN "eq" ELSE "neq"

-----------------------------------------------------------------------------
(* Param: Parse, Serialize, AddFlag *)

\* Param.Parse: the raw text of a positional argument to a typed value
Parse(param, text) ==
    IF param.Type = "integer"
    THEN IF Len(text) = 1 /\ text[1].t = "lit" /\ text[1].s \in Numerals
         THEN [ok |-> TRUE, value |-> [t |-> "int", v |-> NumeralValue(text[1].s)]]
         ELSE [ok |-> FALSE, value |-> Nil]
    ELSE [ok |-> TRUE, value |-> [t |-> "string", v |-> text]]

\* Param.Serialize: the wire strings of a bound value
Serialize(param, value) ==
    IF value.t \in SliceTypes
    THEN IF param.Style = "form" /\ param.Explode
         THEN value.v
         ELSE <<Join(value.v)>>
    ELSE <<Sprintv(value)>>

\* the Go type of the flag Param.AddFlag registers for a parameter type
FlagType(typ) ==
    CASE typ = "boolean" -> "bool"
      [] typ = "integer" -> "int"
      [] typ = "number" -> "float64"
      [] typ = "string" -> "string"
      [] typ = "array[string]" -> "[]string"

\* the zero value of a flag type (an empty, non-nil slice for arrays)
ZeroValue(typ) ==
    CASE typ = "boolean" -> [t |-> "bool", v |-> FALSE]
      [] typ = "integer" -> [t |-> "int", v |-> 0]
      [] typ = "number" -> [t |-> "float64", v |-> 0]
      [] typ = "string" -> [t |-> "string", v |-> EmptyText]
      [] typ = "array[string]" -> [t |-> "[]string", v |-> << >>]

\* Param.AddFlag: the flag starts at the declared default, else at zero
AddFlag(param) ==
    IF param.Default.t = "nil" THEN ZeroValue(param.Type)
    ELSE [t |-> FlagType(param.Type), v |-> param.Default.v]

-----------------------------------------------------------------------------
(* Operation.command: the Run closure (operation.go:61-140) *)

NoRequest == [Method |-> "", path |-> EmptyText, sep |-> "", query |-> EmptyMap,
              Header |-> EmptyMap, hasBody |-> FALSE, body |-> << >>]

NoMsg == [param |-> "", input |-> EmptyText]

\* a variant of ArgSpec that is MinimumNArgs for every operation
ArgSpecAlwaysMinimum(o, args) == Len(args) >= Len(o.PathParams)

\* cobra.ExactArgs / cobra.MinimumNArgs chosen at operation.go:41-44
ArgSpec(o, args) ==
    IF o.BodyMediaType # EmptyText
    THEN Len(args) >= Len(o.PathParams)
    ELSE Len(args) = Len(o.PathParams)

\* PathLoop with the arguments taken from the last one backwards
RECURSIVE PathLoopReversedArgs(_, _, _, _)
PathLoopReversedArgs(o, args, i, uri) ==
    IF i > Len(o.PathParams)
    THEN [err |-> FALSE, uri |-> uri, msg |-> NoMsg]
    ELSE LET param == o.PathParams[i]
             j == Len(o.PathParams) + 1 - i
             r == Parse(param, args[j])
         IN  IF ~r.ok
             THEN [err |-> TRUE, uri |-> uri,
                   msg |-> [param |-> param.Name,
                            input |-> Serialize(param, [t |-> "string", v |-> args[j]])[1]]]
             ELSE PathLoopReversedArgs(o, args, i + 1,
                           ReplaceFirst(uri, Ph(param.Name), Sprintv(r.value)))

\* the path loop, operation.go:62-71, from the i-th path parameter on
RECURSIVE PathLoop(_, _, _, _)
PathLoop(o, args, i, uri) ==
    IF i > Len(o.PathParams)
    THEN [err |-> FALSE, uri |-> uri, msg |-> NoMsg]
    ELSE LET param == o.PathParams[i]
             r == Parse(param, args[i])
         IN  IF ~r.ok
             THEN [err |-> TRUE, uri |-> uri,
                   msg |-> [param |-> param.Name,
                            input |-> Serialize(param, [t |-> "string", v |-> args[i]])[1]]]
             ELSE PathLoop(o, args, i + 1,
                           ReplaceFirst(uri, Ph(param.Name), Sprintv(r.value)))

\* url.Values.Add / http.Header.Add of every string of vs under name
AddAll(m, name, vs) ==
    IF vs = << >> THEN m
    ELSE [n \in DOMAIN m \cup {name} |->
            IF n = name
            THEN (IF name \in DOMAIN m THEN m[name] ELSE << >>) \o vs
            ELSE m[n]]

\* operation.go:75-84: what the query loop does with one parameter
QueryDecision(param, value) ==
    LET e == IfaceEq(value, param.Default)
    IN  IF e = "panic" THEN "panic"
        ELSE IF e = "eq" THEN "skip"
        ELSE IF param.Default.t = "nil" /\ IsZero(value) THEN "skip"
        ELSE "add"

\* operation.go:102-120: what the header loop does with one parameter
HeaderDecision(param, value) ==
    LET e == IfaceEq(value, param.Default)
    IN  IF e = "panic" THEN "panic"
        ELSE IF e = "eq" THEN "skip"
        ELSE IF param.Default.t = "nil" /\ IsZero(value) THEN "skip"
        ELSE IF param.Default.t = "nil" /\ IsEmptySlice(value) THEN "skip"
        ELSE "add"

\* the query loop, operation.go:73-89
RECURSIVE QueryLoop(_, _, _, _)
QueryLoop(params, fl, i, query) ==
    IF i > Len(params) THEN [panic |-> FALSE, vals |-> query]
    ELSE LET param == params[i]
             d == QueryDecision(param, fl[param.Name])
         IN  IF d = "panic" THEN [panic |-> TRUE, vals |-> query]
             ELSE IF d = "skip" THEN QueryLoop(params, fl, i + 1, query)
             ELSE QueryLoop(params, fl, i + 1,
                            AddAll(query, param.Name, Serialize(param, fl[param.Name])))

\* the header loop, operation.go:100-125
RECURSIVE HeaderLoop(_, _, _, _)
HeaderLoop(params, fl, i, headers) ==
    IF i > Len(params) THEN [panic |-> FALSE, vals |-> headers]
    ELSE LET param == params[i]
             d == HeaderDecision(param, fl[param.Name])
         IN  IF d = "panic" THEN [panic |-> TRUE, vals |-> headers]
             ELSE IF d = "skip" THEN HeaderLoop(params, fl, i + 1, headers)
             ELSE HeaderLoop(params, fl, i + 1,
                             AddAll(headers, param.Name, Serialize(param, fl[param.Name])))

\* RunResult where a failed Parse is logged but the run goes on
RunResultNoAbort(o, fl, args, bodyOK) ==
    LET p == PathLoop(o, args, 1, o.URITemplate)
        q == QueryLoop(o.QueryParams, fl, 1, EmptyMap)
        h == HeaderLoop(o.HeaderParams, fl, 1, EmptyMap)
    IN  IF q.panic \/ (~q.panic /\ h.panic)
        THEN [status |-> "panic", req |-> NoRequest, msg |-> NoMsg, sent |-> 0]
        ELSE IF o.BodyMediaType # EmptyText /\ ~bodyOK
        THEN [status |-> "panic", req |-> NoRequest, msg |-> NoMsg, sent |-> 0]
        ELSE [status |-> "sent",
              req |-> [Method |-> o.Method,
                       path |-> p.uri,
                       sep |-> IF DOMAIN q.vals = {} THEN ""
                               ELSE IF IndexOf(p.uri, Lit("?"), 1) # 0 THEN "&"
                               ELSE "?",
                       query |-> q.vals,
                       Header |-> h.vals,
                       hasBody |-> o.BodyMediaType # EmptyText,
                       body |-> IF o.BodyMediaType # EmptyText
                                THEN SubSeq(args, Len(o.PathParams) + 1, Len(args))
                                ELSE << >>],
              msg |-> p.msg, sent |-> 1]

\* the whole Run closure.  bodyOK: whether GetBody returns without error.
\* The request's URI is path, then sep and query.Encode() (operation.go:90-98).
RunResult(o, fl, args, bodyOK) ==
    LET p == PathLoop(o, args, 1, o.URITemplate)
        q == QueryLoop(o.QueryParams, fl, 1, EmptyMap)
        h == HeaderLoop(o.HeaderParams, fl, 1, EmptyMap)
    IN  IF p.err
        THEN [status |-> "fatal", req |-> NoRequest, msg |-> p.msg, sent |-> 0]
        ELSE IF q.panic \/ (~q.panic /\ h.panic)
        THEN [status |-> "panic", req |-> NoRequest, msg |-> NoMsg, sent |-> 0]
        ELSE IF o.BodyMediaType # EmptyText /\ ~bodyOK
        THEN [status |-> "panic", req |-> NoRequest, msg |-> NoMsg, sent |-> 0]
        ELSE [status |-> "sent",
              req |-> [Method |-> o.Method,
                       path |-> p.uri,
                       sep |-> IF DOMAIN q.vals = {} THEN ""
                               ELSE IF IndexOf(p.uri, Lit("?"), 1) # 0 THEN "&"
                               ELSE "?",
                       query |-> q.vals,
                       Header |-> h.vals,
                       hasBody |-> o.BodyMediaType # EmptyText,
                       body |-> IF o.BodyMediaType # EmptyText
                                THEN SubSeq(args, Len(o.PathParams) + 1, Len(args))
                                ELSE << >>],
              msg |-> NoMsg, sent |-> 1]

-----------------------------------------------------------------------------
(* The operations and inputs of the command builder *)

StringValues == {EmptyText, <<Lit("x")>>}

ArrayElem == <<Lit("a")>>

ArrayValues == {[i \in 1..n |-> ArrayElem] : n \in 0..MaxArrayLen}

\* the values a flag of a parameter type can be bound to
FlagValues(typ) ==
    CASE typ = "boolean" -> {[t |-> "bool", v |-> b] : b \in BOOLEAN}
      [] typ = "integer" -> {[t |-> "int", v |-> i] : i \in 0..1}
      [] typ = "number" -> {[t |-> "float64", v |-> i] : i \in 0..1}
      [] typ = "string" -> {[t |-> "string", v |-> s] : s \in StringValues}
      [] typ = "array[string]" -> {[t |-> "[]string", v |-> a] : a \in ArrayValues}

\* the dynamic types a declared default of a parameter type can have: the
\* type encoding/json decodes it to (links.go:324), or the flag's own type
DefaultTypes(typ) ==
    CASE typ = "boolean" -> {"bool"}
      [] typ = "integer" -> {"float64", "int"}
      [] typ = "number" -> {"float64"}
      [] typ = "string" -> {"string"}
      [] typ = "array[string]" -> {"[]interface {}", "[]string"}

Defaults(typ) ==
    {Nil} \cup {[t |-> dt, v |-> fv.v] : dt \in DefaultTypes(typ), fv \in FlagValues(typ)}

ParamTypes == {"boolean", "integer", "number", "string", "array[string]"}

\* a query or header parameter named name; style and explode only bear on
\* arrays (openapiOperation sets explode only when the document does)
FlagParams(name) ==
    UNION {{[Name |-> name, Type |-> typ, Style |-> st, Explode |-> ex, Default |-> d] :
                st \in {"simple", "form"},
                ex \in (IF typ = "array[string]" THEN BOOLEAN ELSE {FALSE}),
                d \in Defaults(typ)} :
           typ \in ParamTypes}

PathParam(name, typ) ==
    [Name |-> name, Type |-> typ, Style |-> "simple", Explode |-> FALSE, Default |-> Nil]

TemplateNone == <<Lit("/items")>>
TemplateOne == <<Lit("/users/"), Ph("id")>>
TemplateTwo == <<Lit("/users/"), Ph("id"), Lit("/posts/"), Ph("postId")>>

\* URI templates with their path parameters in declaration order
PathConfigs ==
    {[tpl |-> TemplateNone, params |-> << >>]}
    \cup {[tpl |-> TemplateOne, params |-> <<PathParam("id", ty)>>] :
            ty \in {"string", "integer"}}
    \cup {[tpl |-> TemplateTwo,
           params |-> <<PathParam("id", ty), PathParam("postId", ty)>>] :
            ty \in {"string", "integer"}}
    \cup {[tpl |-> TemplateTwo,
           params |-> <<PathParam("postId", "string"), PathParam("id", ty)>>] :
            ty \in {"string", "integer"}}

\* operations with path parameters only
PathOperations ==
    {[Name |-> "op", Method |-> "GET", URITemplate |-> pc.tpl,
      PathParams |-> pc.params, QueryParams |-> << >>, HeaderParams |-> << >>,
      BodyMediaType |-> mt] :
        pc \in PathConfigs, mt \in {EmptyText, <<Lit("application/"), Lit("json")>>}}

\* operations with a query parameter, a header parameter or both; when both
\* are declared they have the same description (type, style, explode, default)
FlagOperations ==
    {[Name |-> "op", Method |-> "GET", URITemplate |-> pc.tpl,
      PathParams |-> pc.params,
      QueryParams |-> IF w \in {"q", "qh"} THEN <<q>> ELSE << >>,
      HeaderParams |-> IF w \in {"h", "qh"} THEN <<[q EXCEPT !.Name = "h"]>> ELSE << >>,
      BodyMediaType |-> mt] :
        pc \in {c \in PathConfigs : \A i \in DOMAIN c.params : c.params[i].Type = "string"
                                                           /\ Len(c.params) <= 1},
        q \in FlagParams("q"), w \in {"q", "h", "qh"},
        mt \in {EmptyText, <<Lit("application/"), Lit("json")>>}}

Operations == PathOperations \cup FlagOperations

ArgTexts == {<<Lit("42")>>, <<Lit("7")>>, <<Lit("07")>>, <<Lit("x")>>, <<Ph("postId")>>}

\* the flags map filled at operation.go:143-149
InitialFlags(o) ==
    [n \in {o.QueryParams[i].Name : i \in DOMAIN o.QueryParams}
           \cup {o.HeaderParams[i].Name : i \in DOMAIN o.HeaderParams} |->
        IF \E i \in DOMAIN o.HeaderParams : o.HeaderParams[i].Name = n
        THEN AddFlag(o.HeaderParams[CHOOSE i \in DOMAIN o.HeaderParams :
                                        o.HeaderParams[i].Name = n])
        ELSE AddFlag(o.QueryParams[CHOOSE i \in DOMAIN o.QueryParams :
                                       o.QueryParams[i].Name = n])]

FlagParamOf(o, n) ==
    IF \E i \in DOMAIN o.HeaderParams : o.HeaderParams[i].Name = n
    THEN o.HeaderParams[CHOOSE i \in DOMAIN o.HeaderParams : o.HeaderParams[i].Name = n]
    ELSE o.QueryParams[CHOOSE i \in DOMAIN o.QueryParams : o.QueryParams[i].Name = n]

CommandInit ==
    /\ op \in Operations
    /\ flags = InitialFlags(op)
    /\ cmdStatus = "ready"
    /\ cmdArgs = << >>
    /\ request = NoRequest
    /\ fatalMsg = NoMsg
    /\ sentCount = 0

\* pflag binds the value given on the command line to the flag of name n
SetFlag(n, value) ==
    /\ cmdStatus = "ready"
    /\ n \in DOMAIN flags
    /\ value \in FlagValues(FlagParamOf(op, n).Type)
    /\ value # flags[n]
    /\ flags' = [flags EXCEPT ![n] = value]
    /\ UNCHANGED <<op, cmdStatus, cmdArgs, request, fatalMsg, sentCount>>
    /\ UNCHANGED <<compileVars, linkVars, profileVars>>

\* cobra checks the argument count and calls Run
Run(args, bodyOK) ==
    /\ cmdStatus = "ready"
    /\ ArgSpec(op, args)
    /\ (op.BodyMediaType = EmptyText => bodyOK)
    /\ LET r == RunResult(op, flags, args, bodyOK)
       IN  /\ cmdStatus' = r.status
           /\ request' = r.req
           /\ fatalMsg' = r.msg
           /\ sentCount' = sentCount + r.sent
    /\ cmdArgs' = args
    /\ UNCHANGED <<op, flags>>
    /\ UNCHANGED <<compileVars, linkVars, profileVars>>

\* the argument lists cobra lets through for operation o
ArgLists(o) ==
    UNION {[1..n -> ArgTexts] :
             n \in Len(o.PathParams)..(Len(o.PathParams)
                      + (IF o.BodyMediaType # EmptyText THEN MaxBodyArgs ELSE 0))}

\* argument lists of the other lengths, which cobra turns away
OtherArgLists(o) ==
    {[i \in 1..n |-> <<Lit("x")>>] :
        n \in {k \in 0..(Len(o.PathParams) + MaxBodyArgs) :
                 IF o.BodyMediaType # EmptyText THEN k < Len(o.PathParams)
                 ELSE k # Len(o.PathParams)}}

\* cobra finds the number of arguments wrong (Args: argSpec) and returns a
\* usage error without calling Run
RejectArgs(args) ==
    /\ cmdStatus = "ready"
    /\ ~ArgSpec(op, args)
    /\ cmdStatus' = "usage"
    /\ cmdArgs' = args
    /\ UNCHANGED <<op, flags, request, fatalMsg, sentCount>>
    /\ UNCHANGED <<compileVars, linkVars, profileVars>>

CommandNext ==
    \/ \E n \in DOMAIN flags :
         \E value \in FlagValues(FlagParamOf(op, n).Type) : SetFlag(n, value)
    \/ \E args \in ArgLists(op) \cup OtherArgLists(op) :
         \E bodyOK \in BOOLEAN : Run(args, bodyOK)
    \/ \E args \in ArgLists(op) \cup OtherArgLists(op) : RejectArgs(args)

-----------------------------------------------------------------------------
(* URLs: net/url as ParseLinks and the resolver use it.  A URI text is made *)
(* of the tokens                                                            *)
(* Lit("https:") (a scheme with its colon), Lit("//"), Lit("/") and one     *)
(* token per host or path segment.                                          *)

Slash == Lit("/")
DoubleSlash == Lit("//")
\* an escape sequence url.Parse rejects ("invalid URL escape")
BadEscape == Lit("%zz")
SchemeTokens == {Lit("https:")}
\* tokens holding a colon
ColonTokens == {Lit(":"), Lit("https:")}

NoURL == [Scheme |-> "", Host |-> "", Path |-> EmptyText]

\* the text before the first "/" of rest
FirstSegment(rest) ==
    LET i == IndexOf(rest, Slash, 1)
    IN  IF i = 0 THEN rest ELSE SubSeq(rest, 1, i - 1)

\* url.Parse: [err, url]
URLParse(text) ==
    LET scheme == IF text # << >> /\ text[1] \in SchemeTokens THEN text[1].s ELSE ""
        rest == IF scheme # "" THEN Tail(text) ELSE text
        seg == FirstSegment(rest)
    IN  IF IndexOf(text, BadEscape, 1) # 0
        THEN [err |-> TRUE, url |-> NoURL]
        ELSE IF /\ scheme = ""
                /\ rest # << >>
                /\ rest[1] \notin {Slash, DoubleSlash}
                /\ \E i \in DOMAIN seg : seg[i] \in ColonTokens
        THEN \* "first path segment in URL cannot contain colon"
             [err |-> TRUE, url |-> NoURL]
        ELSE IF rest # << >> /\ rest[1] = DoubleSlash
        THEN LET auth == Tail(rest)
                 host == IF auth # << >> /\ auth[1] # Slash THEN auth[1].s ELSE ""
             IN  [err |-> FALSE,
                  url |-> [Scheme |-> scheme, Host |-> host,
                           Path |-> IF host # "" THEN Tail(auth) ELSE auth]]
        ELSE [err |-> FALSE, url |-> [Scheme |-> scheme, Host |-> "", Path |-> rest]]

\* strings.Split(path, "/"): the segments, "" for an empty one
RECURSIVE Split(_)
Split(p) ==
    IF p = << >> THEN <<"">>
    ELSE IF p[1] = Slash THEN <<"">> \o Split(Tail(p))
    ELSE IF Len(p) = 1 THEN <<p[1].s>>
    ELSE <<p[1].s>> \o Split(SubSeq(p, 3, Len(p)))

SegText(s) == IF s = "" THEN EmptyText ELSE <<Lit(s)>>

\* strings.Join(segs, "/")
RECURSIVE JoinSegs(_)
JoinSegs(segs) ==
    IF segs = << >> THEN EmptyText
    ELSE IF Len(segs) = 1 THEN SegText(segs[1])
    ELSE SegText(segs[1]) \o <<Slash>> \o JoinSegs(Tail(segs))

\* strings.LastIndex for the one-token needle tok, 0 when there is none
RECURSIVE LastIndexOf(_, _, _)
LastIndexOf(s, tok, i) ==
    IF i = 0 THEN 0
    ELSE IF s[i] = tok THEN i
    ELSE LastIndexOf(s, tok, i - 1)

\* the loop of resolvePath over the segments: "." is dropped, ".." pops
RECURSIVE DotLoop(_, _)
DotLoop(src, dst) ==
    IF src = << >> THEN dst
    ELSE LET elem == src[1]
         IN  DotLoop(Tail(src),
                     IF elem = "." THEN dst
                     ELSE IF elem = ".."
                          THEN (IF Len(dst) > 0 THEN SubSeq(dst, 1, Len(dst) - 1) ELSE dst)
                          ELSE Append(dst, elem))

\* net/url resolvePath(base, ref)
ResolvePath(basePath, ref) ==
    LET full == IF ref = << >> THEN basePath
                ELSE IF ref[1] # Slash
                     THEN SubSeq(basePath, 1, LastIndexOf(basePath, Slash, Len(basePath))) \o ref
                     ELSE ref
    IN  IF full = << >> THEN EmptyText
        ELSE LET src == Split(full)
                 d == DotLoop(src, << >>)
                 last == src[Len(src)]
                 dst == IF last \in {".", ".."} THEN Append(d, "") ELSE d
                 joined == JoinSegs(dst)
             IN  <<Slash>> \o (IF joined # << >> /\ joined[1] = Slash
                               THEN Tail(joined) ELSE joined)

\* a variant of ResolveReference that takes every reference as relative
ResolveReferenceRelativeOnly(u, ref) ==
    [Scheme |-> u.Scheme, Host |-> u.Host, Path |-> ResolvePath(u.Path, ref.Path)]

\* (*url.URL).ResolveReference
ResolveReference(u, ref) ==
    IF ref.Scheme # "" \/ ref.Host # ""
    THEN [Scheme |-> IF ref.Scheme = "" THEN u.Scheme ELSE ref.Scheme,
          Host |-> ref.Host,
          Path |-> ResolvePath(ref.Path, EmptyText)]
    ELSE [Scheme |-> u.Scheme, Host |-> u.Host, Path |-> ResolvePath(u.Path, ref.Path)]

\* (*url.URL).String
URLString(u) ==
    (IF u.Scheme # "" THEN <<Lit(u.Scheme)>> ELSE EmptyText)
    \o (IF (u.Scheme # "" \/ u.Host # "") /\ (u.Host # "" \/ u.Path # << >>)
        THEN <<DoubleSlash>> ELSE EmptyText)
    \o (IF u.Host # "" THEN <<Lit(u.Host)>> ELSE EmptyText)
    \o (IF u.Path # << >> /\ u.Path[1] # Slash /\ u.Host # "" THEN <<Slash>> ELSE EmptyText)
    \o u.Path

-----------------------------------------------------------------------------
(* The operation compiler: loadOpenAPI3 and openapiOperation *)

\* longest list of media types one request body declares
MaxMediaTypes == 3
\* most servers a document declares
MaxServers == 2
\* most parameters a path item or an operation declares
MaxParams == 2
\* most named examples a request body holds
MaxExamples == 2

\* an extension holding a JSON boolean: absent, true, false, or a payload
\* that is no boolean
ExtValues == {"absent", "true", "false", "bad"}

\* json.Unmarshal(raw, &b) after the nil test of the extension: b is set by
\* a JSON boolean and keeps its value when the extension is absent or the
\* payload cannot be decoded (the error is dropped)
UnmarshalBool(ext, b) ==
    CASE ext = "true" -> TRUE
      [] ext = "false" -> FALSE
      [] OTHER -> b

JSONType == <<Lit("application/"), Lit("json")>>
ProblemJSONType == <<Lit("application/"), Lit("problem+"), Lit("json")>>
YAMLType == <<Lit("application/"), Lit("yaml")>>
XMLType == <<Lit("application/"), Lit("xml")>>
PlainType == <<Lit("text/"), Lit("plain")>>

MediaTypes == {JSONType, ProblemJSONType, YAMLType, XMLType, PlainType}

\* strings.Contains(mt, word)
Contains(mt, word) == IndexOf(mt, Lit(word), 1) # 0

\* examples of a request body: a value by its kind ("string", "mapping" or
\* "other") and its JSON text; NoExample is nil
NoExample == [kind |-> "nil", text |-> ""]
ExString == [kind |-> "string", text |-> "name=widget"]
ExMapping == [kind |-> "mapping", text |-> "{\"name\":\"widget\"}"]
ExList == [kind |-> "other", text |-> "[1,2]"]

\* shorthand.Get(m) of a mapping-shaped example
ShorthandGet(ex) == IF ex = ExMapping THEN "name: widget" ELSE ex.text

\* json.Marshal(ex)
JSONMarshal(ex) == ex.text

\* op.RequestBody == nil
NoBody == [present |-> FALSE, Content |-> {}, Example |-> NoExample, Examples |-> {}]

\* a request body with the media types c, every one of which holds the
\* example e (item.Example) and the named examples es (item.Examples)
BodyWith(c, e, es) == [present |-> TRUE, Content |-> c, Example |-> e, Examples |-> es]

\* the examples getRequestInfo returns with the media type: item.Example,
\* or else the first named example a range over the map item.Examples meets
RequestExamples(o) ==
    IF o.RequestBody.Example # NoExample THEN {<<o.RequestBody.Example>>}
    ELSE IF o.RequestBody.Examples # {} THEN {<<e>> : e \in o.RequestBody.Examples}
    ELSE {<< >>}

InputExampleHeader == Lit("\n## Input Example\n\n")

\* the loop of openapiOperation over reqExamples (links.go:398-424): the
\* description it leaves, from desc; wroteHeader tells whether the header
\* is written.  A mapping-shaped example is rendered and appended to the
\* local slice examples, which nothing reads afterwards.
RECURSIVE ExamplesLoop(_, _, _)
ExamplesLoop(reqExamples, desc, wroteHeader) ==
    IF reqExamples = << >> THEN desc
    ELSE LET ex == reqExamples[1]
             head == IF wroteHeader THEN EmptyText ELSE <<InputExampleHeader>>
         IN  IF ex.kind = "mapping"
             THEN ExamplesLoop(Tail(reqExamples), desc, wroteHeader)
             ELSE IF ex.kind = "string"
             THEN ExamplesLoop(Tail(reqExamples),
                               desc \o head \o <<Lit("\n"), Lit(ex.text), Lit("\n")>>, TRUE)
             ELSE ExamplesLoop(Tail(reqExamples),
                               desc \o head \o <<Lit("\n"), Lit(JSONMarshal(ex)), Lit("\n")>>, TRUE)

\* getRequestInfo preferring YAML over JSON
GetRequestInfoYAMLFirst(o) ==
    LET mts == IF o.RequestBody.present THEN o.RequestBody.Content ELSE {}
        json == {mt \in mts : Contains(mt, "json")}
        yaml == {mt \in mts : Contains(mt, "yaml")}
    IN  IF yaml # {} THEN yaml
        ELSE IF json # {} THEN json
        ELSE IF mts # {} THEN mts
        ELSE {EmptyText}

\* getRequestInfo: the media types it can return.  Each of its three loops
\* ranges over a Go map, whose iteration order is not fixed, and returns at
\* the first media type that fits.
GetRequestInfo(o) ==
    LET mts == IF o.RequestBody.present THEN o.RequestBody.Content ELSE {}
        json == {mt \in mts : Contains(mt, "json")}
        yaml == {mt \in mts : Contains(mt, "yaml")}
    IN  IF json # {} THEN json
        ELSE IF yaml # {} THEN yaml
        ELSE IF mts # {} THEN mts
        ELSE {EmptyText}

\* slug.Make of an operation identifier
Slug(id) ==
    CASE id = "List Items" -> "list-items"
      [] id = "Get Item" -> "get-item"
      [] OTHER -> id

\* extStr: the string an extension holds, "" when the extension is absent
\* or its payload cannot be decoded (a warning is logged, nothing more)
ExtStr(ext) == IF ext \in {"absent", "bad"} THEN "" ELSE ext

\* the parameters of combinedParams declared in location loc, as cli.Params,
\* in the order of the list (the switch of links.go:358-365)
ParamsIn(combinedParams, loc) ==
    LET Here(p) == p.In = loc
        sel == SelectSeq(combinedParams, Here)
    IN  [i \in DOMAIN sel |->
            [Type |-> sel[i].Type, Name |-> sel[i].Name,
             Description |-> sel[i].Description]]

\* openapiOperation: the cli.Operations it can return for one operation of
\* a path item (one per media type getRequestInfo can pick)
OpenapiOperation(method, uriTemplate, path, o) ==
    {[Name |-> IF ExtStr(o.nameExt) # "" THEN ExtStr(o.nameExt) ELSE Slug(o.OperationID),
      Method |-> method,
      URITemplate |-> uriTemplate,
      PathParams |-> ParamsIn(path.Parameters \o o.Parameters, "path"),
      QueryParams |-> ParamsIn(path.Parameters \o o.Parameters, "query"),
      HeaderParams |-> ParamsIn(path.Parameters \o o.Parameters, "header"),
      BodyMediaType |-> mt,
      Long |-> IF o.RequestBody.present THEN ExamplesLoop(reqExamples, EmptyText, FALSE)
               ELSE EmptyText,
      Hidden |-> UnmarshalBool(path.hidden, FALSE)] :
        mt \in (IF o.RequestBody.present THEN GetRequestInfo(o) ELSE {EmptyText}),
        reqExamples \in RequestExamples(o)}

\* all orders in which a range over a Go map with key set keys can run
RECURSIVE MapOrders(_)
MapOrders(keys) ==
    IF keys = {} THEN {<< >>}
    ELSE UNION {{<<k>> \o rest : rest \in MapOrders(keys \ {k})} : k \in keys}

\* the inner loop of loadOpenAPI3 (links.go:521-531) over the methods in the
\* order ms, ignore being the flag the path test left
RECURSIVE MethodLoop(_, _, _, _, _)
MethodLoop(ms, resolved, path, ignore, acc) ==
    IF ms = << >> THEN acc
    ELSE LET ign == UnmarshalBool(path.ignore, ignore)
         IN  IF ign
             THEN MethodLoop(Tail(ms), resolved, path, ign, acc)
             ELSE MethodLoop(Tail(ms), resolved, path, ign,
                    {a \o <<c>> : a \in acc,
                                  c \in OpenapiOperation(ms[1], resolved, path,
                                                         path.ops[ms[1]])})

\* the entrypoint of the API, "https://api.example.com": loader.base
EntrypointText == <<Lit("https:"), DoubleSlash, Lit("api.example.com")>>
Entrypoint == URLParse(EntrypointText).url

\* loader.Resolve(relURI): [err, uri], uri the text of the resolved URL
Resolve(relURI) ==
    LET parsed == URLParse(relURI)
    IN  IF parsed.err THEN [err |-> TRUE, uri |-> EmptyText]
        ELSE [err |-> FALSE, uri |-> URLString(ResolveReference(Entrypoint, parsed.url))]

\* strings.HasPrefix on texts
HasPrefix(text, prefix) ==
    Len(prefix) <= Len(text) /\ SubSeq(text, 1, Len(prefix)) = prefix

\* location.Scheme + "://" + location.Host
LocationPrefix(loc) == <<Lit(loc.Scheme), DoubleSlash, Lit(loc.Host)>>

\* the loop of loadOpenAPI3 over swagger.Servers (links.go:495-503), from
\* the base path found so far: [err, basePath]
RECURSIVE ServersLoop(_, _, _)
ServersLoop(servers, prefix, basePath) ==
    IF servers = << >> THEN [err |-> FALSE, basePath |-> basePath]
    ELSE IF HasPrefix(servers[1], prefix)
    THEN LET parsedBase == URLParse(servers[1])
         IN  IF parsedBase.err THEN [err |-> TRUE, basePath |-> EmptyText]
             ELSE ServersLoop(Tail(servers), prefix, parsedBase.url.Path)
    ELSE ServersLoop(Tail(servers), prefix, basePath)

\* the outer loop of loadOpenAPI3 (links.go:505-532) over the paths in the
\* order us, basePath being the prefix the servers loop found: [err, ops]
\* with ops the operation lists it can have built when it ends
RECURSIVE PathsLoop(_, _, _, _, _)
PathsLoop(us, doc, basePath, failing, acc) ==
    IF us = << >> THEN [err |-> FALSE, ops |-> acc]
    ELSE LET path == doc.Paths[us[1]]
             ignore == UnmarshalBool(path.ignore, FALSE)
             resolved == Resolve(basePath \o us[1])
         IN  IF ignore THEN PathsLoop(Tail(us), doc, basePath, failing, acc)
             ELSE IF us[1] \in failing \/ resolved.err THEN [err |-> TRUE, ops |-> acc]
             ELSE PathsLoop(Tail(us), doc, basePath, failing,
                    UNION {UNION {MethodLoop(ms, resolved.uri, path, ignore, {a}) :
                                    ms \in MapOrders(DOMAIN path.ops)} :
                           a \in acc})

EmptyAPI == [Short |-> "", Operations |-> << >>]

\* no second load yet
NotAgain == [status |-> "idle", api |-> EmptyAPI]

\* a variant of loadOpenAPI3 that returns what it compiled before the error
LoadOpenAPI3KeepPartial(doc, loc, env) ==
    LET sv == ServersLoop(doc.Servers, LocationPrefix(loc), EmptyText)
    IN  IF env.fault # "none" \/ sv.err
        THEN {[status |-> "err", api |-> EmptyAPI]}
        ELSE UNION {LET r == PathsLoop(us, doc, sv.basePath, env.failing, {<< >>})
                    IN  {[status |-> IF r.err THEN "err" ELSE "ok",
                          api |-> [Short |-> doc.Title, Operations |-> ops]] :
                            ops \in r.ops} :
                    us \in MapOrders(DOMAIN doc.Paths)}

\* loadOpenAPI3: the (API, error) pairs it can return.  env.fault is "read"
\* when reading the response fails and "malformed" when the loader rejects
\* the document; env.failing are the paths the resolver fails on; loc is
\* the URL the document was fetched from.
LoadOpenAPI3(doc, loc, env) ==
    LET sv == ServersLoop(doc.Servers, LocationPrefix(loc), EmptyText)
    IN  IF env.fault # "none" \/ sv.err
        THEN {[status |-> "err", api |-> EmptyAPI]}
        ELSE UNION {LET r == PathsLoop(us, doc, sv.basePath, env.failing, {<< >>})
                    IN  IF r.err THEN {[status |-> "err", api |-> EmptyAPI]}
                        ELSE {[status |-> "ok",
                               api |-> [Short |-> doc.Title, Operations |-> ops]] :
                                ops \in r.ops} :
                    us \in MapOrders(DOMAIN doc.Paths)}

\* request bodies: none, or up to MaxMediaTypes media types
RequestBodies ==
    {NoBody} \cup {BodyWith(c, NoExample, {}) :
                     c \in {x \in SUBSET MediaTypes : Cardinality(x) <= MaxMediaTypes}}

\* the operations of a document: any request body without an ignore
\* extension, or any ignore extension with at most a JSON body
DocOperations ==
    {[OperationID |-> "List Items", nameExt |-> "absent", ignore |-> ig, RequestBody |-> rb,
      Parameters |-> << >>] :
        ig \in ExtValues, rb \in RequestBodies}

Plain(o) ==
    \/ o.ignore = "absent"
    \/ o.RequestBody \in {NoBody, BodyWith({JSONType}, NoExample, {})}

\* path items with the operations ops
PathItems(opsSet) ==
    {[ignore |-> ig, hidden |-> hd, Parameters |-> << >>, ops |-> ops] :
        ig \in ExtValues, hd \in {"absent", "true"}, ops \in opsSet}

OneOp == {[m \in {"GET"} |-> o] : o \in {x \in DocOperations : Plain(x)}}

TwoOps ==
    {[m \in {"GET", "POST"} |-> IF m = "GET" THEN g ELSE p] :
        g \in {x \in DocOperations : Plain(x)},
        p \in {x \in DocOperations : Plain(x) /\ x.RequestBody = NoBody}}

PathA == <<Slash, Lit("a")>>
PathB == <<Slash, Lit("b")>>

\* documents: one path with one or two operations, or two paths with one
\* operation each
Documents ==
    {[Title |-> "API", Servers |-> << >>, Paths |-> [u \in {PathA} |-> pa]] :
        pa \in PathItems(OneOp \cup TwoOps)}
    \cup {[Title |-> "API", Servers |-> << >>,
            Paths |-> [u \in {PathA, PathB} |-> IF u = PathA THEN pa ELSE pb]] :
            pa \in {x \in PathItems(OneOp) : x.hidden = "absent"},
            pb \in {x \in PathItems(OneOp) : x.hidden = "absent"
                                             /\ x.ops["GET"].RequestBody = NoBody}}

LoadEnvs(doc) ==
    {[fault |-> f, failing |-> {}] : f \in {"none", "read", "malformed"}}
    \cup {[fault |-> "none", failing |-> {u}] : u \in DOMAIN doc.Paths}

\* server URLs: two on the entrypoint's host, one on another host, one
\* without a path, one url.Parse rejects
ServerV1 == EntrypointText \o <<Slash, Lit("v1")>>
ServerV2 == EntrypointText \o <<Slash, Lit("v2")>>
ServerOther == <<Lit("https:"), DoubleSlash, Lit("other.example.org"), Slash, Lit("v3")>>
ServerRoot == EntrypointText
ServerBad == EntrypointText \o <<Slash, BadEscape>>

ServerURLs == {ServerV1, ServerV2, ServerOther, ServerRoot, ServerBad}

ServerLists == UNION {[1..n -> ServerURLs] : n \in 0..MaxServers}

\* where the document was fetched from: the entrypoint's host or another
LocationSame == URLParse(EntrypointText \o <<Slash, Lit("openapi.json")>>).url
LocationOther ==
    URLParse(<<Lit("https:"), DoubleSlash, Lit("other.example.org"),
               Slash, Lit("openapi.json")>>).url

\* an operation with nothing but its identifier
BareOperation ==
    [OperationID |-> "List Items", nameExt |-> "absent", ignore |-> "absent",
     RequestBody |-> NoBody, Parameters |-> << >>]

\* a path item with nothing but its GET operation o
BarePath(o) ==
    [ignore |-> "absent", hidden |-> "absent", Parameters |-> << >>,
     ops |-> [m \in {"GET"} |-> o]]

\* documents declaring servers: one path with one GET operation
ServerDocuments ==
    {[Title |-> "API", Servers |-> sv, Paths |-> [u \in {PathA} |-> BarePath(BareOperation)]] :
        sv \in ServerLists}

\* a parameter declaration at a level ("path item" or "operation"), which
\* its description and its type tell
ParamDecl(name, in, level) ==
    [Name |-> name, In |-> in, Description |-> level,
     Type |-> IF level = "operation" THEN "integer" ELSE "string"]

ParamDecls(level) ==
    {ParamDecl("id", "path", level), ParamDecl("id", "query", level),
     ParamDecl("limit", "query", level), ParamDecl("id", "header", level),
     ParamDecl("id", "cookie", level)}

ParamLists(level) == UNION {[1..n -> ParamDecls(level)] : n \in 0..MaxParams}

\* documents declaring parameters on the path item and on its operation
ParamDocuments ==
    {[Title |-> "API", Servers |-> << >>,
      Paths |-> [u \in {PathA} |->
                   [BarePath([BareOperation EXCEPT !.Parameters = ops])
                       EXCEPT !.Parameters = pps]]] :
        pps \in ParamLists("path item"), ops \in ParamLists("operation")}

\* documents whose one operation takes a JSON body with examples
ExampleDocuments ==
    {[Title |-> "API", Servers |-> << >>,
      Paths |-> [u \in {PathA} |->
                   BarePath([BareOperation EXCEPT
                                !.RequestBody = BodyWith({JSONType}, e, es)])]] :
        e \in {NoExample, ExString, ExMapping, ExList},
        es \in {x \in SUBSET {ExString, ExMapping, ExList} : Cardinality(x) <= MaxExamples}}

\* operations with and without an identifier, renamed or not
OperationIDs == {"List Items", "Get Item", ""}
NameExtValues == {"absent", "bad", "list-items", "fetch"}

NamedOperations ==
    {[BareOperation EXCEPT !.OperationID = id, !.nameExt = ne] :
        id \in OperationIDs, ne \in NameExtValues}

\* documents whose two operations, of one path or of two, are named freely
NameDocuments ==
    {[Title |-> "API", Servers |-> << >>,
      Paths |-> [u \in {PathA} |->
                   [ignore |-> "absent", hidden |-> "absent", Parameters |-> << >>,
                    ops |-> [m \in {"GET", "POST"} |-> IF m = "GET" THEN g ELSE p]]]] :
        g \in NamedOperations, p \in NamedOperations}
    \cup {[Title |-> "API", Servers |-> << >>,
            Paths |-> [u \in {PathA, PathB} |-> BarePath(IF u = PathA THEN g ELSE p)]] :
            g \in NamedOperations, p \in NamedOperations}

CompileInit ==
    /\ \/ document \in Documents \cup ParamDocuments \cup NameDocuments \cup ExampleDocuments
          /\ location = LocationSame
       \/ document \in ServerDocuments /\ location \in {LocationSame, LocationOther}
    /\ loadEnv = [fault |-> "none", failing |-> {}]
    /\ loadStatus = "idle"
    /\ api = EmptyAPI
    /\ again = NotAgain

\* loader.Load: compile the document fetched for the API
Load(env) ==
    /\ loadStatus = "idle"
    /\ \E r \in LoadOpenAPI3(document, location, env) :
          /\ loadStatus' = r.status
          /\ api' = r.api
    /\ loadEnv' = env
    /\ UNCHANGED <<document, location, again>>
    /\ UNCHANGED <<cmdVars, linkVars, profileVars>>

\* loader.Load once more, on the same document under the same conditions
LoadAgain ==
    /\ loadStatus # "idle"
    /\ again = NotAgain
    /\ again' \in LoadOpenAPI3(document, location, loadEnv)
    /\ UNCHANGED <<document, location, loadEnv, loadStatus, api>>
    /\ UNCHANGED <<cmdVars, linkVars, profileVars>>

CompileNext ==
    \/ \E env \in LoadEnvs(document) : Load(env)
    \/ LoadAgain

-----------------------------------------------------------------------------
(* Response bodies: the values an unmarshalled JSON-like body is made of *)

\* one field per kind of value, named after the kind
Str(text) == [str |-> text]
Map(f) == [map |-> f]
List(q) == [seq |-> q]
Null == [null |-> TRUE]

\* reflect.ValueOf(value).Kind(), as far as the parsers tell kinds apart
Kind(value) ==
    IF "str" \in DOMAIN value THEN "str"
    ELSE IF "map" \in DOMAIN value THEN "map"
    ELSE IF "seq" \in DOMAIN value THEN "seq"
    ELSE "null"

\* fmt.Sprintf("%v", value) for a body value.  Of the rendering of a
\* non-empty mapping, "map[k:v ...]", the text keeps the opening, the first
\* colon and the closing; of a sequence, "[...]", the brackets.
SprintValue(value) ==
    CASE Kind(value) = "str" -> value.str
      [] Kind(value) = "map" -> IF DOMAIN value.map = {} THEN <<Lit("map[]")>>
                            ELSE <<Lit("map["), Lit(":"), Lit("]")>>
      [] Kind(value) = "seq" -> <<Lit("[]")>>
      [] OTHER -> <<Lit("<nil>")>>

\* resp.Links: nil until a parser creates the map
NilLinks == [nil |-> TRUE, m |-> EmptyMap]

\* a variant of AppendLink that replaces what the relation held
AppendLinkOverwrite(L, rel, uri) ==
    [nil |-> FALSE,
     m |-> [r \in DOMAIN L.m \cup {rel} |->
               IF r = rel THEN <<[Rel |-> rel, URI |-> uri]>> ELSE L.m[r]]]

\* resp.Links[rel] = append(resp.Links[rel], &Link{Rel: rel, URI: uri})
\* on a map that exists
AppendLink(L, rel, uri) ==
    [nil |-> FALSE,
     m |-> [r \in DOMAIN L.m \cup {rel} |->
               IF r = rel
               THEN (IF rel \in DOMAIN L.m THEN L.m[rel] ELSE << >>)
                        \o <<[Rel |-> rel, URI |-> uri]>>
               ELSE L.m[r]]]

\* a variant of AppendAll that appends the last link first
RECURSIVE AppendAllReversed(_, _)
AppendAllReversed(L, q) ==
    IF q = << >> THEN L
    ELSE AppendAllReversed(AppendLink(L, q[Len(q)].Rel, q[Len(q)].URI),
                           SubSeq(q, 1, Len(q) - 1))

\* append the links of the sequence q, in order
RECURSIVE AppendAll(_, _)
AppendAll(L, q) ==
    IF q = << >> THEN L
    ELSE AppendAll(AppendLink(L, q[1].Rel, q[1].URI), Tail(q))

-----------------------------------------------------------------------------
(* The link parsers.  Each returns the set of outcomes [status, L] it can   *)
(* end with on the response r whose Links are L: "ok" (nil error), "err"    *)
(* (an error) or "panic"; a set, because Go iterates its maps in any order. *)

\* the error values ParseLinks can return: nil, the error of link.Parse, the
\* error of url.Parse
NoError == "nil"
LinkParseError == "link.Parse"
URLParseError == "url.Parse"

\* an entry of the Link header that link.Parse cannot read
MalformedEntry == [Rel |-> <<Lit("<")>>, URI |-> EmptyText]

\* link.Parse(resp.Headers["Link"]): [err, links]
LinkParse(header) ==
    IF \E i \in DOMAIN header : header[i] = MalformedEntry
    THEN [err |-> TRUE, links |-> << >>]
    ELSE [err |-> FALSE, links |-> header]

\* LinkHeaderParser.ParseLinks
LinkHeaderParser(r, L) ==
    IF r.Headers.Link = << >> THEN {[status |-> "ok", L |-> L, error |-> NoError]}
    ELSE LET parsed == LinkParse(r.Headers.Link)
         IN  IF parsed.err THEN {[status |-> "err", L |-> L, error |-> LinkParseError]}
             ELSE {[status |-> "ok", L |-> AppendAll(L, parsed.links), error |-> NoError]}

\* mapstructure's decoding of a value into halLink{Href string}
DecodeHalLink(value) ==
    CASE Kind(value) = "null" -> [ok |-> TRUE, Href |-> EmptyText]
      [] Kind(value) = "map" ->
            IF "href" \notin DOMAIN value.map THEN [ok |-> TRUE, Href |-> EmptyText]
            ELSE LET h == value.map["href"]
                 IN  CASE Kind(h) = "str" -> [ok |-> TRUE, Href |-> h.str]
                       [] Kind(h) = "null" -> [ok |-> TRUE, Href |-> EmptyText]
                       [] OTHER -> [ok |-> FALSE, Href |-> EmptyText]
      [] OTHER -> [ok |-> FALSE, Href |-> EmptyText]

\* mapstructure.Decode(resp.Body, &hal): [ok, Links]
DecodeHal(body) ==
    LET none == [ok |-> TRUE, Links |-> EmptyMap]
        bad == [ok |-> FALSE, Links |-> EmptyMap]
    IN  CASE Kind(body) = "null" -> none
          [] Kind(body) = "map" ->
                IF "_links" \notin DOMAIN body.map THEN none
                ELSE LET l == body.map["_links"]
                     IN  CASE Kind(l) = "null" -> none
                           [] Kind(l) = "map" ->
                                 IF \E rel \in DOMAIN l.map : ~DecodeHalLink(l.map[rel]).ok
                                 THEN bad
                                 ELSE [ok |-> TRUE,
                                       Links |-> [rel \in DOMAIN l.map |->
                                                     DecodeHalLink(l.map[rel]).Href]]
                           [] OTHER -> bad
          [] OTHER -> bad

\* the loop of HALParser.ParseLinks over the relations rels of hal
RECURSIVE HalLoop(_, _, _)
HalLoop(hal, rels, L) ==
    IF rels = {} THEN L
    ELSE LET rel == CHOOSE x \in rels : TRUE
         IN  HalLoop(hal, rels \ {rel},
                     IF rel = "curies" THEN L
                     ELSE AppendLink(L, <<Lit(rel)>>, hal[rel]))

\* HALParser.ParseLinks: a decoding error is dropped; the first assignment
\* to resp.Links panics when the map is nil
HALParser(r, L) ==
    LET hal == DecodeHal(r.Body)
    IN  IF ~hal.ok THEN {[status |-> "ok", L |-> L, error |-> NoError]}
        ELSE IF L.nil /\ DOMAIN hal.Links \ {"curies"} # {}
        THEN {[status |-> "panic", L |-> L, error |-> NoError]}
        ELSE {[status |-> "ok", L |-> HalLoop(hal.Links, DOMAIN hal.Links, L), error |-> NoError]}

RECURSIVE Walk(_, _)
RECURSIVE WalkList(_, _)
RECURSIVE WalkKeys(_, _, _)

\* walk on a sequence: each element under key + "-item"
WalkList(key, q) ==
    IF q = << >> THEN {<< >>}
    ELSE {a \o b : a \in Walk(key, q[1]), b \in WalkList(key, Tail(q))}

\* walk on a mapping m, its keys taken in the given order
WalkKeys(key, m, order) ==
    IF order = << >> THEN {<< >>}
    ELSE LET k == order[1]
             first == IF k = "self"
                      THEN {<<[Rel |-> key, URI |-> SprintValue(m[k])]>>}
                      ELSE Walk(<<Lit(k)>>, m[k])
         IN  {a \o b : a \in first, b \in WalkKeys(key, m, Tail(order))}

\* TerrificallySimpleJSONParser.walk: the sequences of Links it can append
Walk(key, value) ==
    CASE Kind(value) = "seq" -> WalkList(key \o <<Lit("-item")>>, value.seq)
      [] Kind(value) = "map" ->
            UNION {WalkKeys(key, value.map, order) : order \in MapOrders(DOMAIN value.map)}
      [] OTHER -> {<< >>}

\* TerrificallySimpleJSONParser.ParseLinks
TerrificallySimpleJSONParser(r, L) ==
    {[status |-> "ok", L |-> AppendAll(L, q), error |-> NoError] : q \in Walk(<<Lit("self")>>, r.Body)}

\* mapstructure's decoding of a value into sirenLink{Rel []string, Href string}
DecodeSirenLink(value) ==
    LET bad == [ok |-> FALSE, Rel |-> << >>, Href |-> EmptyText]
    IN  CASE Kind(value) = "null" -> [ok |-> TRUE, Rel |-> << >>, Href |-> EmptyText]
          [] Kind(value) = "map" ->
                LET rel == IF "rel" \in DOMAIN value.map THEN value.map["rel"] ELSE Null
                    href == IF "href" \in DOMAIN value.map THEN value.map["href"] ELSE Null
                    names == IF Kind(rel) = "seq" THEN rel.seq ELSE << >>
                IN  IF /\ Kind(rel) \in {"null", "seq"}
                       /\ \A i \in DOMAIN names : Kind(names[i]) = "str"
                       /\ Kind(href) \in {"null", "str"}
                    THEN [ok |-> TRUE,
                          Rel |-> [i \in DOMAIN names |-> names[i].str],
                          Href |-> IF Kind(href) = "str" THEN href.str ELSE EmptyText]
                    ELSE bad
          [] OTHER -> bad

\* mapstructure.Decode(resp.Body, &siren): [ok, Links]
DecodeSiren(body) ==
    LET none == [ok |-> TRUE, Links |-> << >>]
        bad == [ok |-> FALSE, Links |-> << >>]
    IN  CASE Kind(body) = "null" -> none
          [] Kind(body) = "map" ->
                IF "links" \notin DOMAIN body.map THEN none
                ELSE LET l == body.map["links"]
                     IN  CASE Kind(l) = "null" -> none
                           [] Kind(l) = "seq" ->
                                 IF \E i \in DOMAIN l.seq : ~DecodeSirenLink(l.seq[i]).ok
                                 THEN bad
                                 ELSE [ok |-> TRUE,
                                       Links |-> [i \in DOMAIN l.seq |-> DecodeSirenLink(l.seq[i])]]
                           [] OTHER -> bad
          [] OTHER -> bad

\* the Links one Siren link adds: one per relation name, in order
SirenLinksOf(link) ==
    IF link.Href = EmptyText THEN << >>
    ELSE [i \in DOMAIN link.Rel |-> [Rel |-> link.Rel[i], URI |-> link.Href]]

RECURSIVE SirenLoop(_)
SirenLoop(links) ==
    IF links = << >> THEN << >>
    ELSE SirenLinksOf(links[1]) \o SirenLoop(Tail(links))

\* SirenParser.ParseLinks: a decoding error is dropped; the first assignment
\* to resp.Links panics when the map is nil
SirenParser(r, L) ==
    LET siren == DecodeSiren(r.Body)
        add == SirenLoop(siren.Links)
    IN  IF ~siren.ok \/ add = << >> THEN {[status |-> "ok", L |-> L, error |-> NoError]}
        ELSE IF L.nil THEN {[status |-> "panic", L |-> L, error |-> NoError]}
        ELSE {[status |-> "ok", L |-> AppendAll(L, add), error |-> NoError]}

\* the built-in parsers
ParserKinds == {"header", "hal", "self", "siren"}

\* parser.ParseLinks(resp) for the parser registered as p
RunParser(p, r, L) ==
    CASE p = "header" -> LinkHeaderParser(r, L)
      [] p = "hal" -> HALParser(r, L)
      [] p = "self" -> TerrificallySimpleJSONParser(r, L)
      [] OTHER -> SirenParser(r, L)

\* a variant of ParserLoop that goes on calling the parsers after an error
RECURSIVE ParserLoopNoAbort(_, _, _)
ParserLoopNoAbort(ps, r, outs) ==
    IF ps = << >> THEN outs
    ELSE ParserLoopNoAbort(Tail(ps), r,
            UNION {IF o.status = "panic" THEN {o}
                   ELSE {[status |-> IF o.status = "err" THEN "err" ELSE n.status,
                          L |-> n.L,
                          invoked |-> Append(o.invoked, ps[1]),
                          error |-> IF o.status = "err" THEN o.error ELSE n.error] :
                            n \in RunParser(ps[1], r, o.L)} : o \in outs})

\* the first loop of ParseLinks: the parsers ps in order, from the outcomes
\* outs reached so far; an outcome is [status, L, invoked, error]
RECURSIVE ParserLoop(_, _, _)
ParserLoop(ps, r, outs) ==
    IF ps = << >> THEN outs
    ELSE ParserLoop(Tail(ps), r,
            UNION {IF o.status # "ok" THEN {o}
                   ELSE {[status |-> n.status, L |-> n.L,
                          invoked |-> Append(o.invoked, ps[1]), error |-> n.error] :
                            n \in RunParser(ps[1], r, o.L)} : o \in outs})

\* the inner loop of ParseLinks over the Links of one relation, from
\* position i: [err, links]
RECURSIVE ResolveRel(_, _, _)
ResolveRel(links, b, i) ==
    IF i > Len(links) THEN [err |-> FALSE, links |-> links]
    ELSE LET p == URLParse(links[i].URI)
         IN  IF p.err THEN [err |-> TRUE, links |-> links]
             ELSE ResolveRel([links EXCEPT ![i].URI = URLString(ResolveReference(b, p.url))],
                             b, i + 1)

\* the second loop of ParseLinks, the relations taken in the given order
RECURSIVE ResolveLoop(_, _, _)
ResolveLoop(m, b, order) ==
    IF order = << >> THEN [err |-> FALSE, m |-> m]
    ELSE LET rr == ResolveRel(m[order[1]], b, 1)
             m2 == [m EXCEPT ![order[1]] = rr.links]
         IN  IF rr.err THEN [err |-> TRUE, m |-> m2]
             ELSE ResolveLoop(m2, b, Tail(order))

\* ParseLinks(base, resp): the outcomes [status, L, found, invoked, error],
\* where found is resp.Links as the parsers left it
ParseLinks(b, r, parsers) ==
    UNION {IF o.status # "ok"
           THEN {[status |-> o.status, L |-> o.L, found |-> o.L,
                  invoked |-> o.invoked, error |-> o.error]}
           ELSE {LET res == ResolveLoop(o.L.m, b, order)
                 IN  [status |-> IF res.err THEN "err" ELSE "ok",
                      L |-> [nil |-> o.L.nil, m |-> res.m],
                      found |-> o.L, invoked |-> o.invoked,
                      error |-> IF res.err THEN URLParseError ELSE NoError] :
                   order \in MapOrders(DOMAIN o.L.m)} :
             o \in ParserLoop(parsers, r,
                              {[status |-> "ok", L |-> r.Links, invoked |-> << >>,
                                error |-> NoError]})}

-----------------------------------------------------------------------------
(* The responses the link resolver is run on *)

\* most parsers registered with AddLinkParser
MaxParsers == 4

RelWidget == <<Slash, Lit("widgets"), Slash, Lit("9")>>
AbsWidget == <<Lit("https:"), DoubleSlash, Lit("api.example.com"),
               Slash, Lit("widgets"), Slash, Lit("9")>>
AbsOther == <<Lit("https:"), DoubleSlash, Lit("other.example.org"), Slash, Lit("x")>>
AbsDots == <<Lit("https:"), DoubleSlash, Lit("api.example.com"),
             Slash, Lit("a"), Slash, Lit(".."), Slash, Lit("b")>>
RelName == <<Lit("9")>>
BadURI == <<BadEscape>>

URITexts == {RelWidget, AbsWidget, AbsOther, AbsDots, RelName, BadURI}

\* "https://api.example.com/widgets"
BaseText == <<Lit("https:"), DoubleSlash, Lit("api.example.com"), Slash, Lit("widgets")>>
Bases == {URLParse(BaseText).url}

Map1(k, value) == Map(k :> value)
Map2(k1, v1, k2, v2) == Map(k1 :> v1 @@ k2 :> v2)

\* bodies for the self-link walk: a value holding the URI u plainly, under
\* "self", one mapping deeper, inside a sequence, or under another key
WalkShapes(u) ==
    {Str(u), Map1("self", Str(u)), Map1("a", Map1("self", Str(u))),
     List(<<Map1("self", Str(u))>>), Map1("a", Str(u))}

WalkKeyPairs == {<<"self", "a">>, <<"a", "b">>, <<"b", "self">>}

WalkBodies ==
    {Map1(k, value) : k \in {"self", "a", "b"}, value \in WalkShapes(RelWidget)}
    \cup {Map2(kk[1], v1, kk[2], v2) :
            kk \in WalkKeyPairs, v1 \in WalkShapes(RelWidget), v2 \in WalkShapes(AbsWidget)}
    \cup {List(<<value>>) : value \in WalkShapes(RelWidget)}
    \cup {List(<<List(<<Map1("self", Str(RelWidget))>>)>>)}
    \cup {List(<<Map1("self", Str(RelWidget)), Map1("self", Str(u))>>) :
            u \in {RelWidget, AbsWidget}}

\* HAL bodies: the value of a relation of _links
HalShapes(u) ==
    {Str(u), Map1("href", Str(u)), Map1("self", Str(u)),
     Map2("href", Str(u), "self", Str(u)), List(<<Map1("href", Str(u))>>), Null}

HalRelPairs == {<<"curies", "self">>, <<"curies", "next">>, <<"self", "next">>}

HalBodies ==
    {Map1("_links", Map1(rel, value)) :
        rel \in {"curies", "self", "next"}, value \in HalShapes(RelWidget)}
    \cup {Map1("_links", Map2(rr[1], v1, rr[2], v2)) :
            rr \in HalRelPairs, v1 \in HalShapes(RelWidget), v2 \in HalShapes(AbsWidget)}
    \cup {Map1("_links", Str(RelWidget))}

\* Siren bodies: a link with its rel (well-formed or not) and its href
SirenRels ==
    {List(<<Str(<<Lit("next")>>)>>),
     List(<<Str(<<Lit("next")>>), Str(<<Lit("self")>>)>>),
     Str(<<Lit("next")>>)}

SirenEntries ==
    {Map2("rel", rel, "href", Str(RelWidget)) : rel \in SirenRels}
    \cup {Map2("rel", rel, "href", Str(EmptyText)) : rel \in SirenRels}
    \cup {Map1("rel", rel) : rel \in SirenRels}

SirenSecond ==
    {Map2("rel", rel, "href", Str(AbsWidget)) : rel \in SirenRels}

SirenBodies ==
    {Map1("links", List(<<e>>)) : e \in SirenEntries}
    \cup {Map1("links", List(<<e1, e2>>)) : e1 \in SirenEntries, e2 \in SirenSecond}

\* bodies whose one link holds each of the URI texts
URIBodies ==
    {Map1("self", Str(u)) : u \in URITexts}
    \cup {Map1("_links", Map1("next", Map1("href", Str(u)))) : u \in URITexts}
    \cup {Map2("self", Str(RelWidget), "a", Map1("self", Str(BadURI)))}
    \cup {List(<<Map1("self", Str(RelWidget)), Map1("self", Str(BadURI))>>)}

NextEntry == [Rel |-> <<Lit("next")>>, URI |-> RelWidget]
PrevEntry == [Rel |-> <<Lit("prev")>>, URI |-> AbsWidget]

NextAgain == [Rel |-> <<Lit("next")>>, URI |-> AbsWidget]

LinkHeaders ==
    {<<NextEntry>>, <<NextEntry, PrevEntry>>, <<MalformedEntry>>, <<NextEntry, MalformedEntry>>,
     <<NextEntry, NextEntry>>, <<NextEntry, NextAgain>>}

HeaderBodies ==
    {Null, Map1("self", Str(RelName)), Map1("_links", Map1("next", Map1("href", Str(AbsOther)))),
     Map1("_links", Map1("next", Map1("href", Str(RelWidget))))}

\* resp.Links before ParseLinks: nil, or a map a caller created
InitialLinks == {NilLinks, [nil |-> FALSE, m |-> EmptyMap]}

Responses ==
    {[Headers |-> [Link |-> << >>], Body |-> body, Links |-> L] :
        body \in WalkBodies \cup HalBodies \cup SirenBodies \cup URIBodies,
        L \in InitialLinks}
    \cup {[Headers |-> [Link |-> h], Body |-> body, Links |-> L] :
            h \in LinkHeaders, body \in HeaderBodies, L \in InitialLinks}

LinksInit ==
    /\ linkParsers = << >>
    /\ resp \in Responses
    /\ base \in Bases
    /\ discovered = NilLinks
    /\ invoked = << >>
    /\ plStatus = "idle"
    /\ plError = NoError

\* AddLinkParser(parser), each built-in parser registered once
AddLinkParser(parser) ==
    /\ plStatus = "idle"
    /\ Len(linkParsers) < MaxParsers
    /\ \A i \in DOMAIN linkParsers : linkParsers[i] # parser
    /\ linkParsers' = Append(linkParsers, parser)
    /\ UNCHANGED <<resp, base, discovered, invoked, plStatus, plError>>
    /\ UNCHANGED <<cmdVars, compileVars, profileVars>>

\* one call of ParseLinks(base, resp)
CallParseLinks ==
    /\ plStatus = "idle"
    /\ \E o \in ParseLinks(base, resp, linkParsers) :
          /\ plStatus' = o.status
          /\ resp' = [resp EXCEPT !.Links = o.L]
          /\ discovered' = o.found
          /\ invoked' = o.invoked
          /\ plError' = o.error
    /\ UNCHANGED <<linkParsers, base>>
    /\ UNCHANGED <<cmdVars, compileVars, profileVars>>

LinksNext ==
    \/ \E parser \in ParserKinds : AddLinkParser(parser)
    \/ CallParseLinks

-----------------------------------------------------------------------------
(* The profile editing loop of the configuration wizard, askEditProfile   *)

\* the names the user gives to headers and query params, and the values
ProfileKeys == {"Accept", "page"}
ProfileValues == {"", "1", "2"}

\* the registered auth handlers with the parameters they ask for
AuthParameters == [h \in {"http-basic"} |-> {"username"}]
AuthExtraKeys == {"scope"}
AuthValues == {"me"}

\* profile.Auth == nil
NoAuth == [nil |-> TRUE, Name |-> "", Params |-> EmptyMap]

\* before any choice of the loop
NoChoice == [kind |-> "", key |-> ""]

\* m[key] = value on a Go map
MapSet(m, key, value) == [k \in DOMAIN m \cup {key} |-> IF k = key THEN value ELSE m[k]]

\* delete(m, key)
MapDelete(m, key) == [k \in DOMAIN m \ {key} |-> m[k]]

\* the maps a profile holds when the loop is entered
StoredMaps == {EmptyMap} \cup {MapSet(EmptyMap, k, "1") : k \in ProfileKeys}

\* askEditProfile is entered: nil maps have been replaced by empty ones
ProfileInit ==
    /\ profile \in {[Headers |-> h, Query |-> q, Auth |-> NoAuth] :
                      h \in StoredMaps, q \in StoredMaps}
    /\ wizard = "editing"
    /\ choice = NoChoice
    /\ before = profile

\* one turn of the loop: the option chosen and the profile it leaves
Turn(kind, key, result) ==
    /\ wizard = "editing"
    /\ choice' = [kind |-> kind, key |-> key]
    /\ before' = profile
    /\ profile' = result
    /\ UNCHANGED wizard
    /\ UNCHANGED <<cmdVars, compileVars, linkVars>>

\* case choice == "Add header"; the name asked for is required
AddHeader(key, value) ==
    /\ key # ""
    /\ Turn("Add header", "", [profile EXCEPT !.Headers = MapSet(profile.Headers, key, value)])

\* case strings.HasPrefix(choice, "Edit header"), for the option of header h
EditHeader(h, key, value) ==
    /\ h \in DOMAIN profile.Headers
    /\ Turn("Edit header", h, [profile EXCEPT !.Headers = MapSet(profile.Headers, key, value)])

\* case strings.HasPrefix(choice, "Delete header"), for the option of header h
DeleteHeader(h, confirmed) ==
    /\ h \in DOMAIN profile.Headers
    /\ Turn("Delete header", h,
            IF confirmed THEN [profile EXCEPT !.Headers = MapDelete(profile.Headers, h)]
            ELSE profile)

\* case choice == "Add query param"; the name asked for is required
AddQueryParam(key, value) ==
    /\ key # ""
    /\ Turn("Add query param", "", [profile EXCEPT !.Query = MapSet(profile.Query, key, value)])

\* case strings.HasPrefix(choice, "Edit query param"), for the option of
\* query param q: the value asked for is stored in profile.Headers[key]
EditQueryParam(q, key, value) ==
    /\ q \in DOMAIN profile.Query
    /\ Turn("Edit query param", q,
            [profile EXCEPT !.Headers = MapSet(profile.Headers, key, value)])

\* case strings.HasPrefix(choice, "Delete query param"), for the option of
\* query param q
DeleteQueryParam(q, confirmed) ==
    /\ q \in DOMAIN profile.Query
    /\ Turn("Delete query param", q,
            IF confirmed THEN [profile EXCEPT !.Query = MapDelete(profile.Query, q)]
            ELSE profile)

\* askAuth: the handler chosen, one value per parameter of the handler, and
\* the additional params the user adds
AskAuth(name, value, extra) ==
    [nil |-> FALSE, Name |-> name,
     Params |-> [p \in AuthParameters[name] \cup extra |-> value]]

\* case choice == "Setup auth"
SetupAuth(name, value, extra) ==
    /\ name \in DOMAIN AuthParameters
    /\ Turn("Setup auth", "", [profile EXCEPT !.Auth = AskAuth(name, value, extra)])

\* case choice == "Finished with profile"
Finished ==
    /\ wizard = "editing"
    /\ wizard' = "finished"
    /\ choice' = [kind |-> "Finished with profile", key |-> ""]
    /\ before' = profile
    /\ UNCHANGED profile
    /\ UNCHANGED <<cmdVars, compileVars, linkVars>>

\* the user interrupts a prompt: os.Exit(0)
Interrupt ==
    /\ wizard = "editing"
    /\ wizard' = "exited"
    /\ UNCHANGED <<profile, choice, before>>
    /\ UNCHANGED <<cmdVars, compileVars, linkVars>>

ProfileNext ==
    \/ \E key \in ProfileKeys : \E value \in ProfileValues : AddHeader(key, value)
    \/ \E h, key \in ProfileKeys : \E value \in ProfileValues : EditHeader(h, key, value)
    \/ \E h \in ProfileKeys : \E confirmed \in BOOLEAN : DeleteHeader(h, confirmed)
    \/ \E key \in ProfileKeys : \E value \in ProfileValues : AddQueryParam(key, value)
    \/ \E q, key \in ProfileKeys : \E value \in ProfileValues : EditQueryParam(q, key, value)
    \/ \E q \in ProfileKeys : \E confirmed \in BOOLEAN : DeleteQueryParam(q, confirmed)
    \/ \E name \in DOMAIN AuthParameters : \E value \in AuthValues :
          \E extra \in SUBSET AuthExtraKeys : SetupAuth(name, value, extra)
    \/ Finished
    \/ Interrupt

-----------------------------------------------------------------------------
(* Specifications: one per component; the other components stay idle *)

CommandIdle ==
    /\ op = [Name |-> "op", Method |-> "GET", URITemplate |-> TemplateNone,
             PathParams |-> << >>, QueryParams |-> << >>, HeaderParams |-> << >>,
             BodyMediaType |-> EmptyText]
    /\ flags = EmptyMap
    /\ cmdStatus = "ready"
    /\ cmdArgs = << >>
    /\ request = NoRequest
    /\ fatalMsg = NoMsg
    /\ sentCount = 0

CompileIdle ==
    /\ document = [Title |-> "", Servers |-> << >>, Paths |-> EmptyMap]
    /\ location = NoURL
    /\ loadEnv = [fault |-> "none", failing |-> {}]
    /\ loadStatus = "idle"
    /\ api = EmptyAPI
    /\ again = NotAgain

LinksIdle ==
    /\ linkParsers = << >>
    /\ resp = [Headers |-> [Link |-> << >>], Body |-> Null, Links |-> NilLinks]
    /\ base = NoURL
    /\ discovered = NilLinks
    /\ invoked = << >>
    /\ plStatus = "idle"
    /\ plError = NoError

ProfileIdle ==
    /\ profile = [Headers |-> EmptyMap, Query |-> EmptyMap, Auth |-> NoAuth]
    /\ wizard = "editing"
    /\ choice = NoChoice
    /\ before = profile

\* the command builder alone
InitCommand == CommandInit /\ CompileIdle /\ LinksIdle /\ ProfileIdle

SpecCommand == InitCommand /\ [][CommandNext]_vars

\* the operation compiler alone
InitCompile == CompileInit /\ CommandIdle /\ LinksIdle /\ ProfileIdle

SpecCompile == InitCompile /\ [][CompileNext]_vars

\* the link resolver alone
InitLinks == LinksInit /\ CommandIdle /\ CompileIdle /\ ProfileIdle

SpecLinks == InitLinks /\ [][LinksNext]_vars

\* the profile editing loop alone
InitProfile == ProfileInit /\ CommandIdle /\ CompileIdle /\ LinksIdle

SpecProfile == InitProfile /\ [][ProfileNext]_vars

CommandTypeOK == cmdStatus \in {"ready", "sent", "fatal", "panic", "usage"}

-----------------------------------------------------------------------------
(* Claims about the command builder *)

QueryParamSet == {op.QueryParams[i] : i \in DOMAIN op.QueryParams}
HeaderParamSet == {op.HeaderParams[i] : i \in DOMAIN op.HeaderParams}

\* the bound value is the zero/empty value of the parameter's type
ZeroOrEmpty(param, value) == value.v = ZeroValue(param.Type).v

\* parameter p is left out of the map m of wire values
Omitted(p, m) == p.Name \notin DOMAIN m

\* parameter p is in m with the serialized form of value
Carried(p, value, m) == p.Name \in DOMAIN m /\ m[p.Name] = Serialize(p, value)

\* C1: in a built request, every query or header parameter with an explicit
\* default is omitted when the bound flag value equals the default and is
\* carried with its serialized value otherwise, for every parameter type.
C1_ExplicitDefaultSuppressed ==
    cmdStatus = "sent" =>
        /\ \A p \in QueryParamSet : p.Default.t # "nil" =>
              IF flags[p.Name].v = p.Default.v
              THEN Omitted(p, request.query)
              ELSE Carried(p, flags[p.Name], request.query)
        /\ \A p \in HeaderParamSet : p.Default.t # "nil" =>
              IF flags[p.Name].v = p.Default.v
              THEN Omitted(p, request.Header)
              ELSE Carried(p, flags[p.Name], request.Header)

\* C2: in a built request, every query or header parameter without an
\* explicit default is omitted when the bound value is the type's zero/empty
\* value (an empty array included) and is carried when it is non-zero.
C2_ZeroValueSuppressed ==
    cmdStatus = "sent" =>
        /\ \A p \in QueryParamSet : p.Default.t = "nil" =>
              IF ZeroOrEmpty(p, flags[p.Name])
              THEN Omitted(p, request.query)
              ELSE ~Omitted(p, request.query)
        /\ \A p \in HeaderParamSet : p.Default.t = "nil" =>
              IF ZeroOrEmpty(p, flags[p.Name])
              THEN Omitted(p, request.Header)
              ELSE ~Omitted(p, request.Header)

\* C3: a header parameter is omitted from the headers exactly when the query
\* parameter of the same description (type, style, explode, default) bound to
\* the same value is omitted from the query string.
C3_HeaderAndQuerySameRule ==
    cmdStatus = "sent" =>
        \A q \in QueryParamSet : \A h \in HeaderParamSet :
            ([q EXCEPT !.Name = h.Name] = h /\ flags[q.Name] = flags[h.Name])
                => (Omitted(h, request.Header) <=> Omitted(q, request.query))

\* the argument text holds no placeholder
PlainText(text) == \A i \in DOMAIN text : text[i].t = "lit"

\* the canonical text an argument of a parameter stands for
CanonicalArg(param, text) ==
    IF param.Type = "integer"
    THEN <<Lit(IntText(NumeralValue(text[1].s)))>>
    ELSE text

\* the template with the placeholder of every declared path parameter
\* replaced by the text of that parameter's own argument
RECURSIVE Filled(_, _, _)
Filled(tpl, params, args) ==
    IF tpl = << >> THEN << >>
    ELSE LET own == {i \in DOMAIN params : tpl[1] = Ph(params[i].Name)}
         IN  (IF own = {} THEN <<tpl[1]>>
              ELSE LET i == CHOOSE j \in own : TRUE
                   IN  CanonicalArg(params[i], args[i]))
             \o Filled(Tail(tpl), params, args)

BadPathArg(i) ==
    /\ op.PathParams[i].Type = "integer"
    /\ cmdArgs[i] \notin {<<Lit(n)>> : n \in Numerals}

\* C5: when parsing a positional path argument fails, the invocation aborts
\* reporting the parameter's name and the offending input, and no request
\* reaches MakeRequestAndFormat.
C5_ParseFailureAborts ==
    (cmdStatus \notin {"ready", "usage"} /\ \E i \in DOMAIN op.PathParams : BadPathArg(i)) =>
        LET first == CHOOSE i \in DOMAIN op.PathParams :
                        BadPathArg(i) /\ \A j \in 1..(i - 1) : ~BadPathArg(j)
        IN  /\ cmdStatus = "fatal"
            /\ fatalMsg = [param |-> op.PathParams[first].Name, input |-> cmdArgs[first]]
            /\ request = NoRequest
            /\ sentCount = 0

\* C5 witness: a run with non-integer text for the integer-typed id
C5_Witness ==
    /\ cmdStatus = "fatal"
    /\ Len(op.PathParams) = 2 /\ op.PathParams[1].Type = "integer"
    /\ cmdArgs[1] = <<Lit("x")>>
    /\ fatalMsg.param = "id"

\* the Run closure was entered
RunEntered == cmdStatus \in {"sent", "fatal", "panic"}

\* C12: the built request carries a body only when the Operation declares a
\* bodyMediaType: with an empty bodyMediaType the command accepts exactly as
\* many positional arguments as there are path parameters and sends no body;
\* with a bodyMediaType the body is built from exactly the positional
\* arguments after the path arguments.
C12_BodyOnlyWithMediaType ==
    /\ RunEntered =>
          IF op.BodyMediaType = EmptyText
          THEN /\ Len(cmdArgs) = Len(op.PathParams)
               /\ ~request.hasBody
               /\ request.body = << >>
          ELSE /\ Len(cmdArgs) >= Len(op.PathParams)
               /\ cmdStatus = "sent" =>
                     /\ request.hasBody
                     /\ request.body = [i \in 1..(Len(cmdArgs) - Len(op.PathParams)) |->
                                           cmdArgs[Len(op.PathParams) + i]]
    /\ cmdStatus = "usage" =>
          /\ request = NoRequest
          /\ sentCount = 0
          /\ IF op.BodyMediaType = EmptyText
             THEN Len(cmdArgs) # Len(op.PathParams)
             ELSE Len(cmdArgs) < Len(op.PathParams)

\* a request with a body built from the argument after the path argument
C12_Witness ==
    /\ cmdStatus = "sent"
    /\ op.BodyMediaType # EmptyText
    /\ Len(op.PathParams) >= 1
    /\ Len(cmdArgs) = Len(op.PathParams) + 1
    /\ request.hasBody
    /\ request.body = <<cmdArgs[Len(cmdArgs)]>>

\* C20: path substitution replaces each placeholder only with its own
\* argument, for every argument text: an argument holding the placeholder
\* of a later path parameter is inserted literally, and the later
\* parameter's placeholder still receives the later argument; template
\* "/users/{id}/posts/{postId}" with arguments "{postId}", "7" gives
\* "/users/{postId}/posts/7".
C20_OwnArgumentOnly ==
    cmdStatus = "sent" =>
        /\ (\E i \in DOMAIN op.PathParams : ~PlainText(cmdArgs[i]))
              => request.path = Filled(op.URITemplate, op.PathParams, cmdArgs)
        /\ (/\ op.URITemplate = TemplateTwo
            /\ op.PathParams[1].Name = "id"
            /\ cmdArgs[1] = <<Ph("postId")>> /\ cmdArgs[2] = <<Lit("7")>>)
              => request.path = <<Lit("/users/"), Ph("postId"), Lit("/posts/"), Lit("7")>>

-----------------------------------------------------------------------------
(* Claims about the operation compiler *)

\* the path of the document a compiled operation was built from
SourceKey(c) ==
    CHOOSE u \in DOMAIN document.Paths :
        /\ Len(u) <= Len(c.URITemplate)
        /\ SubSeq(c.URITemplate, Len(c.URITemplate) - Len(u) + 1, Len(c.URITemplate)) = u

SourcePath(c) == document.Paths[SourceKey(c)]

\* the operation of the document a compiled operation was built from
SourceOp(c) == SourcePath(c).ops[c.Method]

CompiledOps == {api.Operations[i] : i \in DOMAIN api.Operations}

\* C6: a path item or an operation flagged with the ignore extension never
\* appears in the compiled API's Operations, whatever other extensions are
\* set; in particular an operation carrying the flag on an unflagged path is
\* excluded.
C6_IgnoredNeverCompiled ==
    loadStatus = "ok" =>
        \A c \in CompiledOps :
            /\ SourcePath(c).ignore # "true"
            /\ SourceOp(c).ignore # "true"

\* C7: the compiled bodyMediaType of an operation declaring request-body
\* media types is a JSON-flavored one if any is declared, otherwise a
\* YAML-flavored one if any is declared, otherwise one of those declared;
\* for application/xml, application/yaml and application/json it is
\* application/json.
C7_MediaTypePreference ==
    loadStatus = "ok" =>
        \A c \in CompiledOps :
            LET mts == SourceOp(c).RequestBody.Content
            IN  (SourceOp(c).RequestBody.present /\ mts # {}) =>
                    /\ c.BodyMediaType \in mts
                    /\ (\E mt \in mts : Contains(mt, "json"))
                          => Contains(c.BodyMediaType, "json")
                    /\ ((\A mt \in mts : ~Contains(mt, "json"))
                          /\ (\E mt \in mts : Contains(mt, "yaml")))
                          => Contains(c.BodyMediaType, "yaml")
                    /\ (mts = {XMLType, YAMLType, JSONType})
                          => c.BodyMediaType = JSONType

\* C7 witness: an operation declaring xml, yaml and json bodies was compiled
C7_Witness ==
    /\ loadStatus = "ok"
    /\ \E c \in CompiledOps :
          /\ SourceOp(c).RequestBody.present
          /\ SourceOp(c).RequestBody.Content = {XMLType, YAMLType, JSONType}
          /\ c.BodyMediaType = JSONType

\* the path component of the first declared server, in declaration order,
\* whose URL starts with the entrypoint's scheme and host; empty without one
FirstMatchPath(servers) ==
    LET matching == {i \in DOMAIN servers : HasPrefix(servers[i], EntrypointText)}
    IN  IF matching = {} THEN EmptyText
        ELSE URLParse(servers[CHOOSE i \in matching : \A j \in matching : i <= j]).url.Path

CompiledParams(c) ==
    {[In |-> "path", p |-> c.PathParams[i]] : i \in DOMAIN c.PathParams}
    \cup {[In |-> "query", p |-> c.QueryParams[i]] : i \in DOMAIN c.QueryParams}
    \cup {[In |-> "header", p |-> c.HeaderParams[i]] : i \in DOMAIN c.HeaderParams}

\* the number of Parameters of c with the given name and location
CountParams(c, name, in) ==
    LET list == CASE in = "path" -> c.PathParams
                  [] in = "query" -> c.QueryParams
                  [] OTHER -> c.HeaderParams
    IN  Cardinality({i \in DOMAIN list : list[i].Name = name})

\* the parameter lists of the document declare (name, in) at most once each
DeclaredOnce(list) ==
    \A i, j \in DOMAIN list :
        (list[i].Name = list[j].Name /\ list[i].In = list[j].In) => i = j

\* C14: when a path item and one of its operations both declare a parameter
\* with the same name and location, the compiled Operation holds exactly one
\* Parameter for that name+location and it is the operation-level one; no
\* compiled Operation holds two Parameters with the same name in the same
\* location.
C14_OperationLevelOverrides ==
    loadStatus = "ok" =>
        \A c \in CompiledOps :
            (DeclaredOnce(SourcePath(c).Parameters) /\ DeclaredOnce(SourceOp(c).Parameters)) =>
                /\ \A x \in CompiledParams(c) : CountParams(c, x.p.Name, x.In) = 1
                /\ \A i \in DOMAIN SourceOp(c).Parameters :
                      LET d == SourceOp(c).Parameters[i]
                      IN  d.In \in {"path", "query", "header"} =>
                             [In |-> d.In,
                              p |-> [Type |-> d.Type, Name |-> d.Name,
                                     Description |-> d.Description]] \in CompiledParams(c)

\* the document holds an extension whose payload cannot be decoded
HasBadExtension(doc) ==
    \E u \in DOMAIN doc.Paths :
        \/ doc.Paths[u].ignore = "bad"
        \/ doc.Paths[u].hidden = "bad"
        \/ \E m \in DOMAIN doc.Paths[u].ops :
              \/ doc.Paths[u].ops[m].ignore = "bad"
              \/ doc.Paths[u].ops[m].nameExt = "bad"

\* what makes loadOpenAPI3 fail: the document cannot be read or loaded, a
\* server URL on the document's host cannot be parsed, or the resolver
\* fails on a path that is not ignored
Aborts ==
    \/ loadEnv.fault # "none"
    \/ \E i \in DOMAIN document.Servers :
          /\ HasPrefix(document.Servers[i], LocationPrefix(location))
          /\ URLParse(document.Servers[i]).err
    \/ \E u \in loadEnv.failing : document.Paths[u].ignore # "true"

CompiledTwice == loadStatus = "ok" /\ again.status = "ok"

\* the Operations of the second load
CompiledAgain == {again.api.Operations[i] : i \in DOMAIN again.api.Operations}

\* C17: request-body media type selection is deterministic: compiling the
\* same operation description twice yields the same BodyMediaType, also
\* when several declared media types fall in the same preference class.
C17_MediaTypeDeterministic ==
    CompiledTwice =>
        \A c \in CompiledOps : \A d \in CompiledAgain :
            (c.Method = d.Method /\ c.URITemplate = d.URITemplate) =>
                c.BodyMediaType = d.BodyMediaType

\* C18: in every compiled API the names of the Operations are pairwise
\* distinct, also when the operations of the document share an operation
\* identifier, lack one, or are renamed by the rename extension.
C18_NamesPairwiseDistinct ==
    loadStatus = "ok" =>
        \A i, j \in DOMAIN api.Operations :
            api.Operations[i].Name = api.Operations[j].Name => i = j

\* the text is part of the long description of c
InLong(c, text) == IndexOf(c.Long, Lit(text), 1) # 0

\* the example appears in the long description of c as the claim renders
\* it: a mapping in shorthand, a string as it is, any other value serialized
Rendered(c, ex) ==
    CASE ex.kind = "mapping" -> InLong(c, ShorthandGet(ex))
      [] ex.kind = "string" -> InLong(c, ex.text)
      [] OTHER -> InLong(c, JSONMarshal(ex))

\* C19: every example associated with the selected request body appears in
\* the compiled Operation's long description: a mapping-shaped example in
\* its shorthand rendering, a non-string non-mapping example serialized
\* verbatim, a string example as-is.  (Of several named examples the one
\* handed over with the media type is looked for.)
C19_ExamplesInLong ==
    loadStatus = "ok" =>
        \A c \in CompiledOps :
            LET body == SourceOp(c).RequestBody
            IN  /\ (body.present /\ body.Example # NoExample) => Rendered(c, body.Example)
                /\ (body.present /\ body.Example = NoExample /\ body.Examples # {}) =>
                      \E ex \in body.Examples : Rendered(c, ex)

-----------------------------------------------------------------------------
(* Claims about the link resolver *)

\* a step of a path into a body: into a mapping by key, or into a sequence
\* by position
KeyStep(k) == [key |-> k, item |-> 0]
ItemStep(i) == [key |-> "", item |-> i]

\* the paths of the body's `self` entries, none of them lying inside the
\* value of another `self` entry
RECURSIVE SelfPaths(_)
SelfPaths(value) ==
    CASE Kind(value) = "map" ->
            UNION {IF k = "self" THEN {<<KeyStep(k)>>}
                   ELSE {<<KeyStep(k)>> \o p : p \in SelfPaths(value.map[k])} :
                     k \in DOMAIN value.map}
      [] Kind(value) = "seq" ->
            UNION {{<<ItemStep(i)>> \o p : p \in SelfPaths(value.seq[i])} :
                     i \in DOMAIN value.seq}
      [] OTHER -> {}

\* the value found at the end of a path
RECURSIVE ValueAt(_, _)
ValueAt(value, path) ==
    IF path = << >> THEN value
    ELSE IF path[1].item = 0 THEN ValueAt(value.map[path[1].key], Tail(path))
    ELSE ValueAt(value.seq[path[1].item], Tail(path))

\* the innermost key enclosing the last step of a path ("self" when there
\* is none), followed by one "-item" per sequence entered after that key
RECURSIVE InnermostName(_, _)
InnermostName(name, path) ==
    IF Len(path) <= 1 THEN name
    ELSE InnermostName(IF path[1].item = 0 THEN <<Lit(path[1].key)>>
                       ELSE name \o <<Lit("-item")>>,
                       Tail(path))

RelationOf(path) == InnermostName(<<Lit("self")>>, path)

\* ParseLinks has run with the self-link walk as the only source of Links
WalkOnly ==
    /\ plStatus \in {"ok", "err"}
    /\ linkParsers = <<"self">>
    /\ resp.Headers.Link = << >>

\* C8 as stated: the `self` entries of a body at different nesting paths
\* produce as many relation names as there are entries, one Link under each
\* (two entries never share a relation name and none is dropped).
C8_DistinctRelationNames ==
    WalkOnly =>
        /\ Cardinality(DOMAIN discovered.m) = Cardinality(SelfPaths(resp.Body))
        /\ \A rel \in DOMAIN discovered.m : Len(discovered.m[rel]) = 1

\* C8 amended: every `self` entry of the body (not inside the value of
\* another `self` entry) produces one Link and none is dropped; the Link is
\* recorded under the innermost enclosing key (plus "-item" per sequence),
\* so two entries share a relation name exactly when those names agree, and
\* the relation then holds both Links.
C8_SelfLinksNamedByInnermostKey ==
    WalkOnly =>
        LET paths == SelfPaths(resp.Body)
        IN  /\ \A p \in paths :
                  /\ RelationOf(p) \in DOMAIN discovered.m
                  /\ \E i \in DOMAIN discovered.m[RelationOf(p)] :
                        discovered.m[RelationOf(p)][i] =
                            [Rel |-> RelationOf(p),
                             URI |-> SprintValue(ValueAt(resp.Body, p))]
            /\ \A rel \in DOMAIN discovered.m :
                  Len(discovered.m[rel]) = Cardinality({p \in paths : RelationOf(p) = rel})

\* two `self` entries at different paths, both recorded under one relation
C8_Witness ==
    /\ WalkOnly
    /\ \E p, q \in SelfPaths(resp.Body) :
          /\ p # q
          /\ RelationOf(p) = RelationOf(q)
          /\ Len(discovered.m[RelationOf(p)]) = 2
          /\ discovered.m[RelationOf(p)][1].URI # discovered.m[RelationOf(p)][2].URI

\* the body is a mapping whose _links is a mapping holding a curies relation
HasCuries(body) ==
    /\ Kind(body) = "map"
    /\ "_links" \in DOMAIN body.map
    /\ Kind(body.map["_links"]) = "map"
    /\ "curies" \in DOMAIN body.map["_links"].map

\* C9: for a HAL body whose _links holds a curies relation, the Links after
\* ParseLinks with all built-in parsers registered hold no Link for the
\* relation curies, whatever the shape of the curies value.
C9_CuriesNeverALink ==
    (/\ plStatus # "idle"
     /\ {linkParsers[i] : i \in DOMAIN linkParsers} = ParserKinds
     /\ HasCuries(resp.Body))
        => <<Lit("curies")>> \notin DOMAIN resp.Links.m

\* the text is an absolute URI: a scheme, "//" and a host
IsAbsolute(text) ==
    /\ Len(text) >= 3
    /\ text[1] \in SchemeTokens
    /\ text[2] = DoubleSlash
    /\ text[3] \notin {Slash, DoubleSlash}

NoDotSegments(text) == \A i \in DOMAIN text : text[i] \notin {Lit("."), Lit("..")}

\* after ParseLinks returned nil, Links holds the Links the parsers found,
\* relation by relation and position by position
SameLinksAsDiscovered ==
    /\ DOMAIN resp.Links.m = DOMAIN discovered.m
    /\ \A rel \in DOMAIN discovered.m :
          /\ Len(resp.Links.m[rel]) = Len(discovered.m[rel])
          /\ \A i \in DOMAIN discovered.m[rel] :
                resp.Links.m[rel][i].Rel = discovered.m[rel][i].Rel

IsPrefix(a, b) == Len(a) <= Len(b) /\ SubSeq(b, 1, Len(a)) = a

\* the parser registered as p returns an error on the response
ParserFails(p) ==
    /\ p = "header"
    /\ resp.Headers.Link # << >>
    /\ LinkParse(resp.Headers.Link).err

\* C11: ParseLinks invokes the registered parsers in registration order; as
\* soon as one returns an error ParseLinks returns that same error and no
\* parser registered after it is invoked; when none fails all are invoked.
C11_ParsersInOrderUntilError ==
    plStatus # "idle" =>
        /\ IsPrefix(invoked, linkParsers)
        /\ \A i \in DOMAIN invoked :
              ParserFails(invoked[i]) =>
                  /\ i = Len(invoked)
                  /\ plStatus = "err"
                  /\ plError = LinkParseError
        /\ plStatus = "ok" => invoked = linkParsers
        /\ plError = URLParseError => invoked = linkParsers

\* a parser registered second or later failed and a later one was not run
C11_Witness ==
    /\ plStatus = "err"
    /\ plError = LinkParseError
    /\ Len(invoked) >= 2
    /\ Len(invoked) < Len(linkParsers)
    /\ ParserFails(invoked[Len(invoked)])

\* the order in which the text of a body writes the keys of its mappings
KeysAsWritten == <<"_links", "links", "self", "a", "b", "curies", "next", "href", "rel">>

Rank(k) == CHOOSE i \in DOMAIN KeysAsWritten : KeysAsWritten[i] = k

\* the keys of a mapping in the order the body writes them
WrittenOrder(keys) ==
    CHOOSE order \in MapOrders(keys) :
        \A i, j \in DOMAIN order : i < j => Rank(order[i]) < Rank(order[j])

\* the Links the self-link walk appends when it visits the keys of every
\* mapping in the order the body writes them
RECURSIVE WalkAsWritten(_, _)
RECURSIVE WalkListAsWritten(_, _)
RECURSIVE WalkKeysAsWritten(_, _, _)

WalkListAsWritten(key, q) ==
    IF q = << >> THEN << >>
    ELSE WalkAsWritten(key, q[1]) \o WalkListAsWritten(key, Tail(q))

WalkKeysAsWritten(key, m, order) ==
    IF order = << >> THEN << >>
    ELSE (IF order[1] = "self"
          THEN <<[Rel |-> key, URI |-> SprintValue(m[order[1]])]>>
          ELSE WalkAsWritten(<<Lit(order[1])>>, m[order[1]]))
         \o WalkKeysAsWritten(key, m, Tail(order))

WalkAsWritten(key, value) ==
    CASE Kind(value) = "seq" -> WalkListAsWritten(key \o <<Lit("-item")>>, value.seq)
      [] Kind(value) = "map" -> WalkKeysAsWritten(key, value.map, WrittenOrder(DOMAIN value.map))
      [] OTHER -> << >>

\* the Links of the relations rels of a decoded HAL body, in the given order
RECURSIVE HalAsWritten(_, _)
HalAsWritten(hal, order) ==
    IF order = << >> THEN << >>
    ELSE <<[Rel |-> <<Lit(order[1])>>, URI |-> hal[order[1]]]>> \o HalAsWritten(hal, Tail(order))

\* the Links the parser p discovers in the response r, in the order their
\* entries appear in the header or the body
Found(p, r) ==
    CASE p = "header" -> LinkParse(r.Headers.Link).links
      [] p = "hal" ->
            LET hal == DecodeHal(r.Body)
            IN  IF hal.ok
                THEN HalAsWritten(hal.Links, WrittenOrder(DOMAIN hal.Links \ {"curies"}))
                ELSE << >>
      [] p = "self" -> WalkAsWritten(<<Lit("self")>>, r.Body)
      [] OTHER ->
            LET siren == DecodeSiren(r.Body)
            IN  IF siren.ok THEN SirenLoop(siren.Links) ELSE << >>

\* the Links of the sequence q that belong to the relation rel
OfRel(q, rel) ==
    LET Here(l) == l.Rel = rel
    IN  SelectSeq(q, Here)

\* what the parsers ps discover for the relation rel, parser after parser
RECURSIVE FoundByAll(_, _, _)
FoundByAll(ps, r, rel) ==
    IF ps = << >> THEN << >>
    ELSE OfRel(Found(ps[1], r), rel) \o FoundByAll(Tail(ps), r, rel)

\* the relations some parser of ps discovers a Link for
FoundRels(ps, r) ==
    UNION {{Found(ps[i], r)[j].Rel : j \in DOMAIN Found(ps[i], r)} : i \in DOMAIN ps}

\* the sequences a and b hold the same Links the same number of times
SameLinks(a, b) ==
    /\ Len(a) = Len(b)
    /\ \A i \in DOMAIN a :
          Cardinality({j \in DOMAIN a : a[j] = a[i]})
              = Cardinality({j \in DOMAIN b : b[j] = a[i]})

\* the sequence s is made of one block per parser of ps, in order: the
\* Links the parser discovers for rel, in the order of their entries, or, for
\* the self-link walk, in any order
RECURSIVE InBlocks(_, _, _, _)
InBlocks(s, ps, r, rel) ==
    IF ps = << >> THEN s = << >>
    ELSE LET want == OfRel(Found(ps[1], r), rel)
             n == Len(want)
         IN  /\ n <= Len(s)
             /\ IF ps[1] = "self" THEN SameLinks(SubSeq(s, 1, n), want)
                ELSE SubSeq(s, 1, n) = want
             /\ InBlocks(SubSeq(s, n + 1, Len(s)), Tail(ps), r, rel)

\* ParseLinks has run its parsers without a panic
ParsersRan == plStatus \in {"ok", "err"}

\* C16 as stated: the sequence stored under each relation lists every Link
\* discovered for it, duplicates kept, in the order the parsers ran and,
\* within one parser, in the order the entries appear in the body.
C16_InBodyOrder ==
    ParsersRan =>
        /\ DOMAIN discovered.m = FoundRels(invoked, resp)
        /\ \A rel \in DOMAIN discovered.m :
              discovered.m[rel] = FoundByAll(invoked, resp, rel)

\* C16: Links accumulate under their relation without deduplication.  The
\* sequence stored under each relation holds every Link discovered for it,
\* duplicates kept, as one block per parser in the order the parsers ran;
\* the Links of the header parser and of the Siren parser keep the order of
\* their entries, the Links the self-link walk finds under the keys of a
\* mapping come in no fixed order.  Resolving the URIs changes neither the
\* relations nor the number of their Links.
C16_LinksAccumulate ==
    ParsersRan =>
        /\ DOMAIN discovered.m = FoundRels(invoked, resp)
        /\ \A rel \in DOMAIN discovered.m :
              InBlocks(discovered.m[rel], invoked, resp, rel)
        /\ DOMAIN resp.Links.m = DOMAIN discovered.m
        /\ \A rel \in DOMAIN discovered.m :
              Len(resp.Links.m[rel]) = Len(discovered.m[rel])

\* two parsers have added to one relation, which holds the same Link twice
C16_Witness ==
    /\ plStatus = "ok"
    /\ \E rel \in DOMAIN discovered.m :
          /\ \E i, j \in DOMAIN discovered.m[rel] :
                i # j /\ discovered.m[rel][i] = discovered.m[rel][j]
          /\ \E i, j \in DOMAIN invoked :
                /\ i # j
                /\ OfRel(Found(invoked[i], resp), rel) # << >>
                /\ OfRel(Found(invoked[j], resp), rel) # << >>

\* ParseLinks has run with the HAL parser or the Siren parser registered
\* first, on a body in which that parser finds a Link
FirstFindsLink ==
    /\ plStatus # "idle"
    /\ linkParsers # << >>
    /\ linkParsers[1] \in {"hal", "siren"}
    /\ Found(linkParsers[1], resp) # << >>

\* C21: the HAL parser and the Siren parser each work when run first on a
\* response whose Links mapping has not been created yet: for a body
\* holding a HAL relation other than curies, or a Siren link with a
\* non-empty href, ParseLinks records the Link and returns normally, it
\* does not fail on the uninitialised mapping.
C21_WorksOnNilLinks ==
    FirstFindsLink =>
        /\ plStatus # "panic"
        /\ \A i \in DOMAIN Found(linkParsers[1], resp) :
              LET l == Found(linkParsers[1], resp)[i]
              IN  /\ l.Rel \in DOMAIN discovered.m
                  /\ \E j \in DOMAIN discovered.m[l.Rel] : discovered.m[l.Rel][j] = l

\* ParseLinks returned the error of url.Parse for a discovered URI
ResolutionFailed == plStatus = "err" /\ plError = URLParseError

\* C22: URI resolution in ParseLinks is atomic on error: when ParseLinks
\* returns an error because the URI of one discovered Link cannot be
\* parsed, no Link of the response has been rewritten, every Link still
\* holds the URI the parsers discovered.
C22_ResolutionAtomicOnError ==
    ResolutionFailed => resp.Links = discovered

\* ParseLinks has run the HAL parser and the self-link walk, and no other
\* parser, on a body whose _links holds a self relation of the form
\* {href: U}
HalSelfWalked ==
    /\ plStatus \in {"ok", "err"}
    /\ {linkParsers[i] : i \in DOMAIN linkParsers} = {"hal", "self"}
    /\ resp.Headers.Link = << >>
    /\ Kind(resp.Body) = "map"
    /\ "_links" \in DOMAIN resp.Body.map
    /\ Kind(resp.Body.map["_links"]) = "map"
    /\ "self" \in DOMAIN resp.Body.map["_links"].map
    /\ Kind(resp.Body.map["_links"].map["self"]) = "map"
    /\ DOMAIN resp.Body.map["_links"].map["self"].map = {"href"}
    /\ Kind(resp.Body.map["_links"].map["self"].map["href"]) = "str"

\* the text is the textual rendering of a mapping or of a sequence
RendersCompound(text) ==
    text # << >> /\ text[1] \in {Lit("map["), Lit("map[]"), Lit("[]")}

\* C23: every Link recorded by the generic self-link walk has as URI the
\* text of a scalar value of the body: for a HAL body whose _links holds a
\* self relation of the form {href: U}, running the HAL parser and the
\* self-link walk together yields no Link whose URI is the textual
\* rendering of a mapping or sequence, and no Link under the relation name
\* _links.
C23_WalkRecordsScalarsOnly ==
    HalSelfWalked =>
        /\ <<Lit("_links")>> \notin DOMAIN discovered.m
        /\ \A rel \in DOMAIN discovered.m : \A i \in DOMAIN discovered.m[rel] :
              ~RendersCompound(discovered.m[rel][i].URI)

-----------------------------------------------------------------------------
(* Claims about the configuration wizard *)

\* C24: in the profile editing loop, after any sequence of choices,
\* choosing "Edit query param K" changes only the profile's Query mapping
\* and leaves the profile's Headers mapping unchanged, and each header
\* choice (add, edit, delete) leaves the Query mapping unchanged.
C24_QueryAndHeadersApart ==
    /\ choice.kind = "Edit query param" =>
          /\ profile.Headers = before.Headers
          /\ profile.Auth = before.Auth
    /\ choice.kind \in {"Add header", "Edit header", "Delete header"} =>
          profile.Query = before.Query

====
